---- MODULE Spec2Model ----
(***************************************************************************)
(* Verification model of tools/prepare_epubs.py (M5Paper eBook reader      *)
(* tooling): the visible-character counter count_chapter_length, the       *)
(* metrics builder generate_metrics, the archive rewriter process_epub and  *)
(* the batch run of main over a directory with its worker processes.       *)
(*                                                                         *)
(* Bytes are integers 0..255.  Python's unbounded integers that may exceed *)
(* 32 bits are kept as pairs [hi, lo] in base 2^16.                        *)
(***************************************************************************)
EXTENDS Integers, Sequences, FiniteSets, TLC

VARIABLES
    \* ---- count_chapter_length (prepare_epubs.py:18-80) ----
    data,           \* the input bytes
    i,              \* loop index (0-based, as in the code)
    length,         \* running count
    in_tag,         \* inside <...>
    last_space,     \* last emitted unit was a space
    current_tag,    \* bytes accumulated since '<'
    count_pc,       \* "idle" | "scan" | "done"
    \* ---- generate_metrics (prepare_epubs.py:82-186) ----
    epub_kind,          \* what the archive at epub_path is: "ok" | "bad_zip" | "bad_opf"
    opf_path,           \* full-path of the rootfile, as path tokens
    spine_refs,         \* the idrefs of the OPF's itemref elements, in order
    metrics_file,       \* content of m_<stem>.bin, or NoFile
    chapter_offsets,    \* the table built by the last call
    cumulative_length,  \* the running total of the last call
    gm_ret,             \* return value of the last call ("none" before any)
    gm_outcome,         \* the path the last call took
    gm_calls,           \* calls made
    gm_writes,          \* times the metrics file was opened for writing
    \* ---- process_epub (prepare_epubs.py:426-525) ----
    mode,               \* "downscale" | "remove"
    orig_file,          \* the file at epub_path when process_epub was called
    epub_file,          \* the file at epub_path
    temp_file,          \* the file at epub_path + ".tmp", or NoFile
    files_to_remove,    \* names classified for removal
    images_to_downscale,\* names classified for downscaling
    item_idx,           \* entries of zin.infolist() handled so far
    zout,               \* entries written to the temporary archive so far
    pe_pc,              \* "start" | "copy" | "move" | "except" | "returned" | "raised"
    pe_error,           \* the step that raised, "none" when none did
    move_how,           \* how shutil.move replaced the original
    \* ---- main and process_single_epub (prepare_epubs.py:531-608) ----
    dir_exists,         \* whether target_dir names a directory
    dir0,               \* the target directory when main was called
    dir,                \* the target directory: the files in it, one per name
    metrics_files,      \* the metrics files in it, one per book stem
    epub_paths,         \* the sorted names main discovered
    max_workers,        \* worker processes
    tasks,              \* one record per discovered name: the call of process_single_epub
    results,            \* results collected by main, in order
    index_entries,      \* catalog lines built by main
    index_file,         \* index.txt: the lines written, <<>> when there is none yet
    index_opens,        \* times index.txt was opened for writing
    main_pc             \* "idle" | "start" | "running" | "returned" | "raised"

countVars == <<data, i, length, in_tag, last_space, current_tag, count_pc>>

metricsVars ==
    <<epub_kind, opf_path, spine_refs, metrics_file, chapter_offsets,
      cumulative_length, gm_ret, gm_outcome, gm_calls, gm_writes>>

archiveVars ==
    <<mode, orig_file, epub_file, temp_file, files_to_remove, images_to_downscale,
      item_idx, zout, pe_pc, pe_error, move_how>>

batchVars ==
    <<dir_exists, dir0, dir, metrics_files, epub_paths, max_workers, tasks, results, index_entries,
      index_file, index_opens, main_pc>>

vars == <<countVars, metricsVars, archiveVars, batchVars>>

-----------------------------------------------------------------------------
(* Bounds of the model *)

\* longest input of the general family, in chunks
MaxChunks == 3
\* longest run of whitespace bytes / block tags in the run families, in chunks
MaxRun == 2
\* longest spine, in itemrefs
MaxSpine == 3
\* calls of generate_metrics on one book
MaxCalls == 2
\* most entries of an archive of the general family
MaxEntries == 3

-----------------------------------------------------------------------------
(* Bytes *)

Ord ==
    ("SP" :> 32) @@ ("LF" :> 10) @@ ("CR" :> 13) @@ ("FF" :> 255)
    @@ ("<" :> 60) @@ (">" :> 62) @@ ("/" :> 47) @@ ("=" :> 61) @@ ("." :> 46)
    @@ ("Q" :> 34)   \* the double quote
    @@ ("1" :> 49) @@ ("2" :> 50)
    @@ ("a" :> 97) @@ ("b" :> 98) @@ ("c" :> 99) @@ ("d" :> 100) @@ ("e" :> 101)
    @@ ("g" :> 103) @@ ("h" :> 104) @@ ("i" :> 105) @@ ("l" :> 108)
    @@ ("m" :> 109) @@ ("n" :> 110) @@ ("o" :> 111) @@ ("p" :> 112)
    @@ ("r" :> 114) @@ ("s" :> 115) @@ ("t" :> 116) @@ ("v" :> 118)
    @@ ("x" :> 120) @@ ("f" :> 102) @@ ("j" :> 106) @@ ("w" :> 119) @@ ("y" :> 121)
    @@ ("A" :> 65) @@ ("F" :> 70) @@ ("J" :> 74) @@ ("N" :> 78) @@ ("O" :> 79)
    @@ ("T" :> 84)
    @@ ("B" :> 66) @@ ("G" :> 71) @@ ("H" :> 72) @@ ("I" :> 73) @@ ("M" :> 77)
    @@ ("P" :> 80) @@ ("R" :> 82) @@ ("W" :> 87)
    @@ ("VT" :> 11) @@ ("|" :> 124) @@ ("-" :> 45) @@ ("_" :> 95) @@ ("*" :> 42)
    @@ ("k" :> 107) @@ ("q" :> 113) @@ ("u" :> 117) @@ ("z" :> 122)
    @@ ("0" :> 48) @@ ("3" :> 51) @@ ("4" :> 52) @@ ("5" :> 53) @@ ("6" :> 54)
    @@ ("7" :> 55) @@ ("8" :> 56) @@ ("9" :> 57)
    @@ ("C" :> 67) @@ ("E" :> 69) @@ ("U" :> 85) @@ ("X" :> 88)

\* the bytes of a text given as a tuple of character names
B(s) == [k \in 1..Len(s) |-> Ord[s[k]]]

RECURSIVE Flatten(_)
Flatten(ss) == IF ss = <<>> THEN <<>> ELSE Head(ss) \o Flatten(Tail(ss))

SeqsUpTo(S, n) == UNION {[1..k -> S] : k \in 0..n}

StartsWith(s, p) == Len(s) >= Len(p) /\ SubSeq(s, 1, Len(p)) = p

-----------------------------------------------------------------------------
(* count_chapter_length *)

\* bytes.decode('utf-8', errors='ignore'): bytes that cannot occur in UTF-8
\* are dropped.  The model's alphabet is ASCII plus 0xFF.
DecodeIgnore(bs) == SelectSeq(bs, LAMBDA b : b < 248)

\* str.lower() on ASCII
LowerByte(b) == IF b >= 65 /\ b <= 90 THEN b + 32 ELSE b
Lower(bs) == [k \in 1..Len(bs) |-> LowerByte(bs[k])]

TagStr(tag) == Lower(DecodeIgnore(tag))

IsBlock(tag_str) ==
    \/ tag_str \in {B(<<"p">>), B(<<"/", "p">>)}
    \/ StartsWith(tag_str, B(<<"p", "SP">>))
    \/ StartsWith(tag_str, B(<<"/", "p", "SP">>))
    \/ tag_str \in {B(<<"d", "i", "v">>), B(<<"/", "d", "i", "v">>)}
    \/ StartsWith(tag_str, B(<<"d", "i", "v", "SP">>))
    \/ StartsWith(tag_str, B(<<"/", "d", "i", "v", "SP">>))
    \/ tag_str \in {B(<<"b", "r">>), B(<<"b", "r", "/">>)}
    \/ StartsWith(tag_str, B(<<"b", "r", "SP">>))
    \/ tag_str \in {B(<<"l", "i">>), B(<<"/", "l", "i">>)}
    \/ /\ Len(tag_str) >= 2
       /\ \/ tag_str[1] = Ord["h"]
          \/ tag_str[1] = Ord["/"] /\ tag_str[2] = Ord["h"]

IsImgExactOnly(tag_str) == tag_str = B(<<"i", "m", "g">>)

IsImg(tag_str) ==
    \/ tag_str = B(<<"i", "m", "g">>)
    \/ StartsWith(tag_str, B(<<"i", "m", "g", "SP">>))

ImageCost == 7

\* the state of the scan between two loop iterations
ScanInit == [length |-> 0, in_tag |-> FALSE, last_space |-> TRUE, current_tag |-> <<>>]

\* '>' closes a tag: lines 39-60
CloseTagElidedClearsSpace(st) ==
    LET tag_str == TagStr(st.current_tag) IN
    IF IsBlock(tag_str)
    THEN IF ~st.last_space
         THEN [st EXCEPT !.in_tag = FALSE, !.length = @ + 1, !.last_space = TRUE]
         ELSE [st EXCEPT !.in_tag = FALSE]
    ELSE IF IsImg(tag_str)
    THEN [st EXCEPT !.in_tag = FALSE, !.length = @ + ImageCost, !.last_space = FALSE]
    ELSE [st EXCEPT !.in_tag = FALSE, !.last_space = FALSE]

CloseTagBlockAlwaysEmits(st) ==
    LET tag_str == TagStr(st.current_tag) IN
    IF IsBlock(tag_str)
    THEN [st EXCEPT !.in_tag = FALSE, !.length = @ + 1, !.last_space = TRUE]
    ELSE IF IsImg(tag_str)
    THEN [st EXCEPT !.in_tag = FALSE, !.length = @ + ImageCost, !.last_space = FALSE]
    ELSE [st EXCEPT !.in_tag = FALSE]

CloseTag(st) ==
    LET tag_str == TagStr(st.current_tag) IN
    IF IsBlock(tag_str)
    THEN IF ~st.last_space
         THEN [st EXCEPT !.in_tag = FALSE, !.length = @ + 1, !.last_space = TRUE]
         ELSE [st EXCEPT !.in_tag = FALSE]
    ELSE IF IsImg(tag_str)
    THEN [st EXCEPT !.in_tag = FALSE, !.length = @ + ImageCost, !.last_space = FALSE]
    ELSE [st EXCEPT !.in_tag = FALSE]

\* a byte outside a tag: lines 66-76
OutsideNoCollapse(st, c0) ==
    LET c == IF c0 = 10 \/ c0 = 13 THEN 32 ELSE c0 IN
    IF c = 32
    THEN [st EXCEPT !.length = @ + 1, !.last_space = TRUE]
    ELSE [st EXCEPT !.length = @ + 1, !.last_space = FALSE]

Outside(st, c0) ==
    LET c == IF c0 = 10 \/ c0 = 13 THEN 32 ELSE c0 IN
    IF c = 32
    THEN IF ~st.last_space
         THEN [st EXCEPT !.length = @ + 1, !.last_space = TRUE]
         ELSE st
    ELSE [st EXCEPT !.length = @ + 1, !.last_space = FALSE]

\* one iteration in which a byte inside a tag is counted like text
ScanStepCountsTagText(st, c) ==
    IF c = 60
    THEN [st EXCEPT !.in_tag = TRUE, !.current_tag = <<>>]
    ELSE IF st.in_tag
    THEN IF c = 62
         THEN CloseTag(st)
         ELSE [st EXCEPT !.current_tag = Append(@, c), !.length = @ + 1]
    ELSE Outside(st, c)

\* one iteration of the while loop, lines 29-78 (i += 1 is the caller's)
ScanStep(st, c) ==
    IF c = 60
    THEN [st EXCEPT !.in_tag = TRUE, !.current_tag = <<>>]
    ELSE IF st.in_tag
    THEN IF c = 62
         THEN CloseTag(st)
         ELSE [st EXCEPT !.current_tag = Append(@, c)]
    ELSE Outside(st, c)

\* the scan state after the bytes bs, started from st
RECURSIVE ScanFrom(_, _)
ScanFrom(st, bs) ==
    IF bs = <<>> THEN st
    ELSE IF Len(bs) = 1 THEN ScanStep(st, bs[1])
    ELSE LET half == Len(bs) \div 2
             mid == ScanFrom(st, SubSeq(bs, 1, half))
         IN  \* the test makes TLC compute mid before it scans the rest
             IF mid.length >= 0
             THEN ScanFrom(mid, SubSeq(bs, half + 1, Len(bs)))
             ELSE mid

Scan(bs) == ScanFrom(ScanInit, bs)

count_chapter_length(bs) == Scan(bs).length

-----------------------------------------------------------------------------
(* Inputs of count_chapter_length *)

WsBytes == {B(<<"SP">>), B(<<"LF">>), B(<<"CR">>)}

\* the block-boundary tags the specification lists
BlockTagTexts ==
    {B(<<"p">>), B(<<"/", "p">>), B(<<"d", "i", "v">>), B(<<"/", "d", "i", "v">>),
     B(<<"b", "r">>), B(<<"b", "r", "/">>), B(<<"l", "i">>), B(<<"/", "l", "i">>),
     B(<<"h", "1">>), B(<<"/", "H", "2">>)}

TagOf(t) == <<60>> \o t \o <<62>>

RunChunks == WsBytes \cup {TagOf(t) : t \in BlockTagTexts}

GeneralChunks ==
    {B(<<"SP">>), B(<<"a">>), B(<<"<">>), B(<<">">>),
     TagOf(B(<<"p">>)), TagOf(B(<<"/", "h", "1">>)), TagOf(B(<<"i">>)),
     TagOf(B(<<"i", "m", "g">>)), TagOf(B(<<"l", "i", "SP", "x">>))}

ExHelloWorld ==
    B(<<"<", "p", ">", "H", "e", "l", "l", "o", "<", "/", "p", ">", "LF",
        "<", "p", ">", "W", "o", "r", "l", "d", "<", "/", "p", ">">>)
ExImgSlash == B(<<"<", "i", "m", "g", "/", ">">>)
ExImgBare == B(<<"<", "i", "m", "g", ">">>)
ExImgSrc ==
    B(<<"<", "i", "m", "g", "SP", "s", "r", "c", "=", "Q", "x", ".", "p", "n", "g",
        "Q", "/", ">">>)
ExImgUpper == B(<<"<", "I", "M", "G", "SP", "s", "r", "c", "=", "x", ">">>)
ExSpan == B(<<"<", "s", "p", "a", "n", ">", "<", "/", "s", "p", "a", "n", ">">>)
ExBadByteTag == B(<<"a", "<", "FF", "p", ">", "b">>)
ExUnterminated == B(<<"a", "SP", "<", "p", "SP", "c">>)
ExAttrs ==
    B(<<"a", "<", "P", "SP", "x", ">", "LF", "CR", "<", "B", "R", "SP", "/", ">",
        "b", "<", "e", "m", ">", "SP", "<", "/", "e", "m", ">", "c">>)

Examples ==
    {ExHelloWorld, ExImgSlash, ExImgBare, ExImgSrc, ExImgUpper, ExSpan,
     ExBadByteTag, ExUnterminated, ExAttrs}

GeneralInputs == {Flatten(cs) : cs \in SeqsUpTo(GeneralChunks, MaxChunks)}

\* only whitespace bytes and block tags
BoundaryInputs == {Flatten(cs) : cs \in SeqsUpTo(RunChunks, MaxRun)}

\* a run between two non-space emissions
SandwichInputs ==
    {B(<<"a">>) \o r \o e :
        r \in BoundaryInputs, e \in {B(<<"b">>), TagOf(B(<<"i", "m", "g">>))}}

CountInputs == GeneralInputs \cup BoundaryInputs \cup SandwichInputs \cup Examples

-----------------------------------------------------------------------------
(* The scan as a state machine *)

CountInit ==
    /\ data \in CountInputs
    /\ i = 0
    /\ length = 0
    /\ in_tag = FALSE
    /\ last_space = TRUE
    /\ current_tag = <<>>
    /\ count_pc = "scan"

CountState ==
    [length |-> length, in_tag |-> in_tag, last_space |-> last_space,
     current_tag |-> current_tag]

\* while i < n: one iteration
ScanByte ==
    /\ count_pc = "scan"
    /\ i < Len(data)
    /\ LET st == ScanStep(CountState, data[i + 1]) IN
        /\ length' = st.length
        /\ in_tag' = st.in_tag
        /\ last_space' = st.last_space
        /\ current_tag' = st.current_tag
    /\ i' = i + 1
    /\ UNCHANGED <<data, count_pc>>
    /\ UNCHANGED <<metricsVars, archiveVars, batchVars>>

\* return length
ScanReturn ==
    /\ count_pc = "scan"
    /\ i = Len(data)
    /\ count_pc' = "done"
    /\ UNCHANGED <<data, i, length, in_tag, last_space, current_tag>>
    /\ UNCHANGED <<metricsVars, archiveVars, batchVars>>

CountNext == ScanByte \/ ScanReturn

\* no scan is running
CountIdle ==
    /\ data = <<>>
    /\ i = 0
    /\ length = 0
    /\ in_tag = FALSE
    /\ last_space = TRUE
    /\ current_tag = <<>>
    /\ count_pc = "idle"

-----------------------------------------------------------------------------
(* Python integers wider than TLC's: value = hi * 2^16 + lo *)

W(n) == [hi |-> n \div 65536, lo |-> n % 65536]

WAdd(a, b) ==
    LET lo == a.lo + b.lo IN
    [hi |-> a.hi + b.hi + (lo \div 65536), lo |-> lo % 65536]

WLeq(a, b) == a.hi < b.hi \/ (a.hi = b.hi /\ a.lo <= b.lo)

\* struct.pack("<I", v) raises struct.error unless 0 <= v < 2^32
FitsU32(v) == v.hi < 65536

\* struct.pack("<Q", v): eight bytes, as a 64-bit size_t would be written
PackU64(v) ==
    <<v.lo % 256, v.lo \div 256, v.hi % 256, (v.hi \div 256) % 256,
      v.hi \div 65536, 0, 0, 0>>

\* struct.pack("<I", v): four bytes, least significant first
PackU32(v) == <<v.lo % 256, v.lo \div 256, v.hi % 256, v.hi \div 256>>

\* struct.pack("<B", v)
PackU8(n) == <<n>>

-----------------------------------------------------------------------------
(* generate_metrics *)

NoFile == "NoFile"
None == "None"

\* the OPF manifest: id -> href (path tokens), None for an item without href
manifest ==
    ("c1" :> <<"ch1.xhtml">>)
    @@ ("c2" :> <<"sub", "\\", "ch2.xhtml">>)
    @@ ("missing" :> <<"gone.xhtml">>)
    @@ ("unreadable" :> <<"bad.xhtml">>)
    @@ ("big" :> <<"big.xhtml">>)
    @@ ("nohref" :> None)

\* idrefs a spine may carry; "ghost" has no manifest item
Idrefs == DOMAIN manifest \cup {"ghost"}

\* n times the byte b
Rep(b, n) == [k \in 1..n |-> b]

\* chapter files: "<p>" 99 x "a" "</p>" and 49 x "a" "\n"
Ch1Data == TagOf(B(<<"p">>)) \o Rep(Ord["a"], 99) \o TagOf(B(<<"/", "p">>))
Ch2Data == Rep(Ord["a"], 49) \o B(<<"LF">>)

\* a chapter of 2^32 - 120 bytes "a", kept as its fill byte and its size
BigFile == [kind |-> "ok", fill |-> 97, n |-> [hi |-> 65535, lo |-> 65416]]

\* os.path.dirname on path tokens
dirname(path) == IF Len(path) <= 1 THEN <<>> ELSE SubSeq(path, 1, Len(path) - 2)

\* str.replace("\\", "/") on path tokens
ReplaceBackslash(path) ==
    [k \in 1..Len(path) |-> IF path[k] = "\\" THEN "/" ELSE path[k]]

\* lines 138-141: resolve href relative to the OPF
FullPath(opf_dir, href) ==
    ReplaceBackslash(IF opf_dir # <<>> THEN opf_dir \o <<"/">> \o href ELSE href)

\* the archive's entries below the OPF's directory; gone.xhtml is not there
ZipEntries(opf_dir) ==
    LET at(name) == IF opf_dir # <<>> THEN opf_dir \o <<"/">> \o name ELSE name IN
    (at(<<"ch1.xhtml">>) :> [kind |-> "ok", data |-> Ch1Data])
    @@ (at(<<"sub", "/", "ch2.xhtml">>) :> [kind |-> "ok", data |-> Ch2Data])
    @@ (at(<<"bad.xhtml">>) :> [kind |-> "bad"])
    @@ (at(<<"big.xhtml">>) :> BigFile)

\* zf.read(full_path): the entry, or KeyError when the archive has no such name
ZfRead(opf_dir, full_path) ==
    IF full_path \in DOMAIN ZipEntries(opf_dir)
    THEN ZipEntries(opf_dir)[full_path]
    ELSE [kind |-> "KeyError"]

\* count_chapter_length of the small chapter files, computed once
SmallCounts ==
    [d \in {Ch1Data, Ch2Data} |-> count_chapter_length(d)]

\* count_chapter_length(content): n bytes "a" outside any tag count n (lines 74-76)
ContentLength(file) ==
    IF "data" \in DOMAIN file THEN W(SmallCounts[file.data]) ELSE file.n

\* the loop body with the bug of appending the chapter's own length
SpineStepAppendsLength(acc, idref, opf_dir) ==
    IF acc.raised \/ idref \notin DOMAIN manifest THEN acc
    ELSE IF manifest[idref] = None THEN [acc EXCEPT !.raised = TRUE]
    ELSE LET file == ZfRead(opf_dir, FullPath(opf_dir, manifest[idref])) IN
         IF file.kind = "ok"
         THEN [acc EXCEPT !.cumulative_length = WAdd(@, ContentLength(file)),
                          !.chapter_offsets = Append(@, ContentLength(file))]
         ELSE [acc EXCEPT !.chapter_offsets = Append(@, acc.cumulative_length)]

\* the loop body with the bug of skipping a chapter whose file is missing
SpineStepSkipsMissing(acc, idref, opf_dir) ==
    IF acc.raised \/ idref \notin DOMAIN manifest THEN acc
    ELSE IF manifest[idref] = None THEN [acc EXCEPT !.raised = TRUE]
    ELSE LET file == ZfRead(opf_dir, FullPath(opf_dir, manifest[idref])) IN
         IF file.kind = "ok"
         THEN LET total == WAdd(acc.cumulative_length, ContentLength(file)) IN
              [acc EXCEPT !.cumulative_length = total,
                          !.chapter_offsets = Append(@, total)]
         ELSE IF file.kind = "KeyError" THEN acc
         ELSE [acc EXCEPT !.chapter_offsets = Append(@, acc.cumulative_length)]

\* lines 132-154, one idref.  href None makes line 140/141 raise (TypeError or
\* AttributeError), which only the outer handler at line 184 catches.
SpineStep(acc, idref, opf_dir) ==
    IF acc.raised \/ idref \notin DOMAIN manifest THEN acc
    ELSE IF manifest[idref] = None THEN [acc EXCEPT !.raised = TRUE]
    ELSE LET file == ZfRead(opf_dir, FullPath(opf_dir, manifest[idref])) IN
         IF file.kind = "ok"
         THEN LET total == WAdd(acc.cumulative_length, ContentLength(file)) IN
              [acc EXCEPT !.cumulative_length = total,
                          !.chapter_offsets = Append(@, total)]
         ELSE [acc EXCEPT !.chapter_offsets = Append(@, acc.cumulative_length)]

RECURSIVE SpineLoop(_, _, _)
SpineLoop(acc, refs, opf_dir) ==
    IF refs = <<>> THEN acc
    ELSE SpineLoop(SpineStep(acc, Head(refs), opf_dir), Tail(refs), opf_dir)

\* lines 126-154
CalculateMetrics(refs, opf_dir) ==
    SpineLoop([chapter_offsets |-> <<W(0)>>, cumulative_length |-> W(0),
               raised |-> FALSE], refs, opf_dir)

RECURSIVE PackAll(_)
PackAll(offsets) ==
    IF offsets = <<>> THEN <<>> ELSE PackU32(Head(offsets)) \o PackAll(Tail(offsets))

\* lines 171-179: the bytes a complete write puts into the file
MetricsBytes(offsets, total) ==
    PackU8(1) \o PackU32(total) \o PackU32(W(Len(offsets))) \o PackAll(offsets)

\* metrics_path.exists() answering False for a file that is there
NeverExists(f) == FALSE

\* line 90: metrics_path.exists()
Exists(f) == f # NoFile

\* a metrics file left by an earlier run
StaleFile == PackU8(1) \o PackU32(W(7)) \o PackU32(W(2)) \o PackU32(W(0)) \o PackU32(W(7))

MetricsInit ==
    /\ \/ /\ epub_kind = "ok"
          /\ opf_path \in {<<"content.opf">>, <<"OEBPS", "/", "content.opf">>}
          /\ spine_refs \in SeqsUpTo(Idrefs, MaxSpine)
       \/ /\ epub_kind \in {"bad_zip", "bad_opf"}
          /\ opf_path = <<"content.opf">>
          /\ spine_refs = <<>>
    /\ metrics_file \in {NoFile, StaleFile}
    /\ chapter_offsets = <<>>
    /\ cumulative_length = W(0)
    /\ gm_ret = "none"
    /\ gm_outcome = "none"
    /\ gm_calls = 0
    /\ gm_writes = 0

Called == gm_calls < MaxCalls /\ gm_calls' = gm_calls + 1

\* lines 90-92: the metrics file is already there
GM_Exists ==
    /\ Called
    /\ Exists(metrics_file)
    /\ gm_ret' = "True"
    /\ gm_outcome' = "exists"
    /\ chapter_offsets' = <<>>
    /\ cumulative_length' = W(0)
    /\ UNCHANGED <<epub_kind, opf_path, spine_refs, metrics_file, gm_writes>>
    /\ UNCHANGED <<countVars, archiveVars, batchVars>>

\* lines 97, 184-186: the archive cannot be opened
GM_BadZip ==
    /\ Called
    /\ ~Exists(metrics_file)
    /\ epub_kind = "bad_zip"
    /\ gm_ret' = "False"
    /\ gm_outcome' = "zip_error"
    /\ chapter_offsets' = <<>>
    /\ cumulative_length' = W(0)
    /\ UNCHANGED <<epub_kind, opf_path, spine_refs, metrics_file, gm_writes>>
    /\ UNCHANGED <<countVars, archiveVars, batchVars>>

\* lines 99-109: container.xml or the OPF cannot be read or parsed
GM_BadOpf ==
    /\ Called
    /\ ~Exists(metrics_file)
    /\ epub_kind = "bad_opf"
    /\ gm_ret' = "False"
    /\ gm_outcome' = "opf_error"
    /\ chapter_offsets' = <<>>
    /\ cumulative_length' = W(0)
    /\ UNCHANGED <<epub_kind, opf_path, spine_refs, metrics_file, gm_writes>>
    /\ UNCHANGED <<countVars, archiveVars, batchVars>>

\* lines 132-141, 184-186: an exception inside the loop but outside its try
GM_LoopRaises ==
    /\ Called
    /\ ~Exists(metrics_file)
    /\ epub_kind = "ok"
    /\ LET m == CalculateMetrics(spine_refs, dirname(opf_path)) IN
        /\ m.raised
        /\ chapter_offsets' = m.chapter_offsets
        /\ cumulative_length' = m.cumulative_length
    /\ gm_ret' = "False"
    /\ gm_outcome' = "loop_error"
    /\ UNCHANGED <<epub_kind, opf_path, spine_refs, metrics_file, gm_writes>>
    /\ UNCHANGED <<countVars, archiveVars, batchVars>>

\* line 170: open(metrics_path, "wb") fails; no file is created
GM_OpenFails ==
    /\ Called
    /\ ~Exists(metrics_file)
    /\ epub_kind = "ok"
    /\ LET m == CalculateMetrics(spine_refs, dirname(opf_path)) IN
        /\ ~m.raised
        /\ chapter_offsets' = m.chapter_offsets
        /\ cumulative_length' = m.cumulative_length
    /\ gm_ret' = "False"
    /\ gm_outcome' = "open_error"
    /\ UNCHANGED <<epub_kind, opf_path, spine_refs, metrics_file, gm_writes>>
    /\ UNCHANGED <<countVars, archiveVars, batchVars>>

\* lines 170-173: the total does not fit "<I"; struct.error leaves the file
\* with the version byte only.  (The offsets are non-decreasing, so the total
\* is the first field that can fail to fit.)
GM_Overflow ==
    /\ Called
    /\ ~Exists(metrics_file)
    /\ epub_kind = "ok"
    /\ LET m == CalculateMetrics(spine_refs, dirname(opf_path)) IN
        /\ ~m.raised
        /\ ~FitsU32(m.cumulative_length)
        /\ chapter_offsets' = m.chapter_offsets
        /\ cumulative_length' = m.cumulative_length
    /\ metrics_file' = PackU8(1)
    /\ gm_writes' = gm_writes + 1
    /\ gm_ret' = "False"
    /\ gm_outcome' = "pack_error"
    /\ UNCHANGED <<epub_kind, opf_path, spine_refs>>
    /\ UNCHANGED <<countVars, archiveVars, batchVars>>

\* lines 170-179: a write fails (disk full, I/O error) after cut bytes
GM_WriteFails ==
    /\ Called
    /\ ~Exists(metrics_file)
    /\ epub_kind = "ok"
    /\ LET m == CalculateMetrics(spine_refs, dirname(opf_path)) IN
        /\ ~m.raised
        /\ FitsU32(m.cumulative_length)
        /\ chapter_offsets' = m.chapter_offsets
        /\ cumulative_length' = m.cumulative_length
        /\ LET full == MetricsBytes(m.chapter_offsets, m.cumulative_length) IN
           \E cut \in {0, 1, 5, Len(full) - 1} :
               metrics_file' = SubSeq(full, 1, cut)
    /\ gm_writes' = gm_writes + 1
    /\ gm_ret' = "False"
    /\ gm_outcome' = "write_error"
    /\ UNCHANGED <<epub_kind, opf_path, spine_refs>>
    /\ UNCHANGED <<countVars, archiveVars, batchVars>>

\* lines 170-182: the file is written and closed
GM_Written ==
    /\ Called
    /\ ~Exists(metrics_file)
    /\ epub_kind = "ok"
    /\ LET m == CalculateMetrics(spine_refs, dirname(opf_path)) IN
        /\ ~m.raised
        /\ FitsU32(m.cumulative_length)
        /\ chapter_offsets' = m.chapter_offsets
        /\ cumulative_length' = m.cumulative_length
        /\ metrics_file' = MetricsBytes(m.chapter_offsets, m.cumulative_length)
    /\ gm_writes' = gm_writes + 1
    /\ gm_ret' = "True"
    /\ gm_outcome' = "written"
    /\ UNCHANGED <<epub_kind, opf_path, spine_refs>>
    /\ UNCHANGED <<countVars, archiveVars, batchVars>>

generate_metrics ==
    \/ GM_Exists
    \/ GM_BadZip
    \/ GM_BadOpf
    \/ GM_LoopRaises
    \/ GM_OpenFails
    \/ GM_Overflow
    \/ GM_WriteFails
    \/ GM_Written

\* no book is given to generate_metrics
MetricsIdle ==
    /\ epub_kind = "none"
    /\ opf_path = <<>>
    /\ spine_refs = <<>>
    /\ metrics_file = NoFile
    /\ chapter_offsets = <<>>
    /\ cumulative_length = W(0)
    /\ gm_ret = "none"
    /\ gm_outcome = "none"
    /\ gm_calls = 0
    /\ gm_writes = 0

-----------------------------------------------------------------------------
(* process_epub *)

\* IMAGE_EXTS, FONT_EXTS: lines 393-400
IMAGE_EXTS ==
    {B(<<".", "j", "p", "g">>), B(<<".", "j", "p", "e", "g">>), B(<<".", "p", "n", "g">>),
     B(<<".", "g", "i", "f">>), B(<<".", "w", "e", "b", "p">>), B(<<".", "b", "m", "p">>),
     B(<<".", "t", "i", "f", "f">>)}

FONT_EXTS ==
    {B(<<".", "t", "t", "f">>), B(<<".", "o", "t", "f">>), B(<<".", "w", "o", "f", "f">>),
     B(<<".", "w", "o", "f", "f", "2">>), B(<<".", "e", "o", "t">>)}

\* str.rfind: the last position of byte c in p, 0 when there is none
LastIndex(p, c) ==
    LET at == {k \in 1..Len(p) : p[k] = c} IN
    IF at = {} THEN 0 ELSE CHOOSE k \in at : \A j \in at : j <= k

\* os.path.splitext(p)[1]: from the last dot of the last path component on,
\* unless that component has nothing but dots before it
splitext_ext(p) ==
    LET sepIndex == LastIndex(p, Ord["/"])
        dotIndex == LastIndex(p, Ord["."])
    IN  IF /\ dotIndex > sepIndex
           /\ \E k \in (sepIndex + 1)..(dotIndex - 1) : p[k] # Ord["."]
        THEN SubSeq(p, dotIndex, Len(p))
        ELSE <<>>

\* the extension compared as written, without lower-casing
ext_as_written(f) == splitext_ext(f)

\* line 442: os.path.splitext(f)[1].lower()
ext_lower(f) == Lower(splitext_ext(f))

\* lines 441-449: the classification of one name
Removed(f, md) ==
    \/ ext_lower(f) \in FONT_EXTS
    \/ ext_lower(f) \in IMAGE_EXTS /\ md = "remove"

Downscaled(f, md) ==
    /\ ext_lower(f) \notin FONT_EXTS
    /\ ext_lower(f) \in IMAGE_EXTS
    /\ md = "downscale"

\* what an entry holds: a picture (for a name with an image extension) or
\* bytes.  fails names the step of the image codec that raises on this picture
Picture(w, h, fails) == [width |-> w, height |-> h, fails |-> fails]

NoPicture == Picture(0, 0, "open")

Holding(pic, bytes) == [image |-> pic, data |-> bytes]

EntryOf(name, method, content) ==
    [filename |-> name, compress_type |-> method, content |-> content]

\* an entry whose bytes are of no concern
Entry(name, method) == EntryOf(name, method, Holding(NoPicture, <<>>))

NameMimetype == B(<<"m", "i", "m", "e", "t", "y", "p", "e">>)

\* line 467: max_width, max_height = 960, 540
max_width == 960
max_height == 540

\* lines 471-472, int(x * ratio) with ratio the double num / den: the exact
\* quotient rounded down, or one less where the exact quotient is whole and
\* the product of the doubles falls just short of it
Scaled(x, num, den) ==
    LET q == (x * num) \div den IN
    {q} \cup (IF (x * num) % den = 0 THEN {q - 1} ELSE {})

\* the ratio taken as the larger of the two quotients
NewSizesMaxRatio(w, h) ==
    IF max_width * h <= max_height * w
    THEN Scaled(w, max_height, h) \X Scaled(h, max_height, h)
    ELSE Scaled(w, max_width, w) \X Scaled(h, max_width, w)

\* lines 470-472: ratio = min(max_width / width, max_height / height) and the
\* new size, as <<new_width, new_height>>
NewSizes(w, h) ==
    IF max_width * h <= max_height * w
    THEN Scaled(w, max_width, w) \X Scaled(h, max_width, w)
    ELSE Scaled(w, max_height, h) \X Scaled(h, max_height, h)

\* lines 464-486: what the entry's picture may be after the downscale step.
\* Image.open raises on bytes that are no picture; resize raises on a picture
\* that cannot be loaded and on a size with a side below 1; save raises on a
\* picture the format cannot hold.  Each is caught and the bytes kept
Downscale(pic) ==
    IF pic.fails = "open" THEN {pic}
    ELSE IF pic.width > max_width \/ pic.height > max_height
    THEN {IF \/ pic.fails \in {"resize", "save"}
             \/ size[1] < 1
             \/ size[2] < 1
          THEN pic
          ELSE Picture(size[1], size[2], "none") :
            size \in NewSizes(pic.width, pic.height)}
    ELSE {pic}

\* bytes.decode('utf-8') raises on bytes that cannot occur in UTF-8 (line 491)
Utf8Decodes(bs) == \A k \in 1..Len(bs) : bs[k] < 248

\* the line boundaries of str.splitlines(): LF, CR, CR LF, and the further
\* separators (VT, FF, FS, GS, RS, NEL, LS, PS), of which the model has VT
IsLineBreak(b) == b \in {Ord["LF"], Ord["CR"], Ord["VT"]}

\* str.splitlines() (line 494)
RECURSIVE splitlines(_)
splitlines(bs) ==
    LET brk == {k \in 1..Len(bs) : IsLineBreak(bs[k])} IN
    IF bs = <<>> THEN <<>>
    ELSE IF brk = {} THEN <<bs>>
    ELSE LET k == CHOOSE x \in brk : \A y \in brk : x <= y
             last == IF bs[k] = Ord["CR"] /\ k < Len(bs) /\ bs[k + 1] = Ord["LF"]
                     THEN k + 1 ELSE k
         IN  <<SubSeq(bs, 1, k - 1)>> \o splitlines(SubSeq(bs, last + 1, Len(bs)))

\* the operator in on str: sub occurs in s
Contains(s, sub) ==
    \E k \in 0..(Len(s) - Len(sub)) : SubSeq(s, k + 1, k + Len(sub)) = sub

\* os.path.basename
basename(p) == SubSeq(p, LastIndex(p, Ord["/"]) + 1, Len(p))

\* str.endswith
EndsWith(s, p) == Len(s) >= Len(p) /\ SubSeq(s, Len(s) - Len(p) + 1, Len(s)) = p

\* only a line that names the removed entry by its whole path is dropped
DropLineWholePath(line, removed) ==
    /\ Contains(line, B(<<"<", "i", "t", "e", "m">>))
    /\ \E removed_f \in removed : Contains(line, B(<<"Q">>) \o removed_f \o B(<<"Q">>))

\* lines 496-501: drop_line
DropLine(line, removed) ==
    /\ Contains(line, B(<<"<", "i", "t", "e", "m">>))
    /\ \E removed_f \in removed : Contains(line, basename(removed_f))

\* '\n'.join(new_lines) (line 508)
RECURSIVE JoinLF(_)
JoinLF(lines) ==
    IF lines = <<>> THEN <<>>
    ELSE IF Len(lines) = 1 THEN lines[1]
    ELSE lines[1] \o <<Ord["LF"]>> \o JoinLF(Tail(lines))

\* lines 490-511: the bytes written for an OPF entry
PruneOpf(bytes, removed) ==
    IF Utf8Decodes(bytes)
    THEN JoinLF(SelectSeq(splitlines(bytes), LAMBDA line : ~DropLine(line, removed)))
    ELSE bytes

\* lines 460-511: what may be written for an entry
Transformed(item, to_downscale, removed) ==
    {Holding(pic,
             IF EndsWith(item.filename, B(<<".", "o", "p", "f">>))
             THEN PruneOpf(item.content.data, removed)
             ELSE item.content.data) :
        pic \in IF item.filename \in to_downscale
                THEN Downscale(item.content.image)
                ELSE {item.content.image}}

\* entries of the general family of archives
CoreEntries ==
    {Entry(NameMimetype, "ZIP_STORED"),
     Entry(B(<<"c", ".", "o", "p", "f">>), "ZIP_DEFLATED"),
     Entry(B(<<"t", ".", "x", "m", "l">>), "ZIP_DEFLATED"),
     Entry(B(<<"f", ".", "t", "t", "f">>), "ZIP_DEFLATED"),
     Entry(B(<<"G", ".", "O", "T", "F">>), "ZIP_STORED"),
     Entry(B(<<"i", ".", "p", "n", "g">>), "ZIP_STORED")}

\* one name for every extension of the two sets, and names that only look alike
ExtensionNames ==
    {B(<<"a">>) \o e : e \in IMAGE_EXTS \cup FONT_EXTS}
    \cup {B(<<"A", ".", "J", "p", "G">>), B(<<"d", "/", ".", "t", "t", "f">>),
          B(<<"d", ".", "t", "t", "f", "/", "x">>), B(<<"a", ".", "s", "v", "g">>),
          B(<<"a", ".", "t", "t", "f", ".", "x", "m", "l">>),
          B(<<"a", ".", "x", "m", "l", ".", "T", "T", "F">>), B(<<"t", "t", "f">>),
          B(<<".", ".", "t", "t", "f">>), B(<<"d", "/", ".", ".", "p", "n", "g">>)}

Archives ==
    SeqsUpTo(CoreEntries, MaxEntries)
    \cup {<<Entry(B(<<"t", ".", "x", "m", "l">>), "ZIP_DEFLATED"), Entry(n, "ZIP_DEFLATED")>> :
            n \in ExtensionNames}

\* pictures within the bounds, on them, beyond one or both, and so flat that
\* a side scales to nothing; each sound, or failing at one step of the codec
Pictures ==
    {Picture(sz[1], sz[2], f) :
        sz \in {<<800, 500>>, <<960, 540>>, <<1920, 1080>>, <<961, 100>>,
                <<100, 541>>, <<4000, 3000>>, <<2000, 1>>},
        f \in {"none", "open", "resize", "save"}}

PictureNames == {B(<<"i", ".", "p", "n", "g">>), B(<<"A", ".", "J", "p", "G">>)}

\* archives with one picture after the mimetype entry
PictureArchives ==
    {<<Entry(NameMimetype, "ZIP_DEFLATED"),
       EntryOf(n, "ZIP_DEFLATED", Holding(pic, <<>>))>> :
        n \in PictureNames, pic \in Pictures}

\* lines of a package document
ItemLine(href) ==
    B(<<"<", "i", "t", "e", "m", "SP", "h", "r", "e", "f", "=", "Q">>) \o href
    \o B(<<"Q", "/", ">">>)

ItemrefLine(idref) ==
    B(<<"<", "i", "t", "e", "m", "r", "e", "f", "SP", "i", "d", "r", "e", "f", "=", "Q">>)
    \o idref \o B(<<"Q", "/", ">">>)

MetaLine == B(<<"<", "m", "e", "t", "a", "/", ">">>)

NameFont == B(<<"f", ".", "t", "t", "f">>)
NameFontInDir == B(<<"d", "/", "g", ".", "o", "t", "f">>)
NameFontA == B(<<"a", ".", "t", "t", "f">>)
NameTextA == B(<<"a", ".", "t", "t", "f", ".", "x", "m", "l">>)
NameText == B(<<"t", ".", "x", "m", "l">>)
NamePicture == B(<<"i", ".", "p", "n", "g">>)

\* package documents, as sequences of lines: plain; with a spine line that
\* names a font; with an entry whose name holds a font's name; with two items
\* on a line; with a further separator within a line; with bytes that are no
\* UTF-8; with a font in a directory
OpfLines ==
    {<<MetaLine, ItemLine(NameFont), ItemLine(NameText), ItemrefLine(NameText)>>,
     <<ItemLine(NameFont), ItemLine(NamePicture), ItemrefLine(NameFont)>>,
     <<ItemLine(NameFontA), ItemLine(NameTextA), MetaLine>>,
     <<MetaLine, ItemLine(NameFont) \o ItemLine(NameText)>>,
     <<MetaLine \o <<Ord["VT"]>> \o ItemLine(NameFont), ItemLine(NameText)>>,
     <<<<Ord["FF"]>>, ItemLine(NameFont), ItemLine(NameText)>>,
     <<ItemLine(NameFontInDir), ItemLine(NameText)>>,
     <<MetaLine, <<>>, ItemLine(NameText)>>}

\* the lines, each but the last followed by the terminator, the last one
\* followed by it or not
RECURSIVE Terminated(_, _, _)
Terminated(lines, term, final) ==
    IF lines = <<>> THEN <<>>
    ELSE IF Len(lines) = 1 THEN lines[1] \o (IF final THEN term ELSE <<>>)
    ELSE lines[1] \o term \o Terminated(Tail(lines), term, final)

OpfTexts ==
    {Terminated(ls, term, final) :
        ls \in OpfLines,
        term \in {<<Ord["LF"]>>, <<Ord["CR"], Ord["LF"]>>, <<Ord["CR"]>>},
        final \in BOOLEAN}

OpfNames ==
    {B(<<"c", ".", "o", "p", "f">>), B(<<"d", "/", "c", ".", "o", "p", "f">>),
     B(<<"C", ".", "O", "P", "F">>)}

\* archives with a package document and the entries its lines name
OpfArchives ==
    {<<Entry(NameMimetype, "ZIP_STORED"),
       EntryOf(n, "ZIP_DEFLATED", Holding(NoPicture, text)),
       Entry(NameFont, "ZIP_DEFLATED"), Entry(NameFontInDir, "ZIP_DEFLATED"),
       Entry(NameFontA, "ZIP_DEFLATED"), Entry(NameTextA, "ZIP_DEFLATED"),
       Entry(NameText, "ZIP_DEFLATED"),
       EntryOf(NamePicture, "ZIP_DEFLATED", Holding(Picture(800, 500, "none"), <<>>))>> :
        n \in OpfNames, text \in OpfTexts}

ZipFile(entries) == [kind |-> "zip", entries |-> entries]

\* a file that is no readable zip archive
Garbage == [kind |-> "garbage", entries |-> <<>>]

\* no file at that path
Absent == [kind |-> "absent", entries |-> <<>>]

\* what is left of a file whose writing stopped before its end
Partial(entries) == [kind |-> "partial", entries |-> entries]

ArchiveInit ==
    /\ mode \in {"downscale", "remove"}
    /\ orig_file \in {ZipFile(es) : es \in Archives \cup PictureArchives \cup OpfArchives}
                    \cup {Garbage}
    /\ epub_file = orig_file
    /\ temp_file \in {Absent, Partial(<<>>)}
    /\ files_to_remove = {}
    /\ images_to_downscale = {}
    /\ item_idx = 0
    /\ zout = <<>>
    /\ pe_pc = "start"
    /\ pe_error = "none"
    /\ move_how = "none"

\* line 434: zipfile.ZipFile(epub_path, 'r') raises; the temporary file is not
\* opened
PE_OpenBadZip ==
    /\ pe_pc = "start"
    /\ epub_file.kind # "zip"
    /\ pe_pc' = "except"
    /\ pe_error' = "open"
    /\ UNCHANGED <<mode, orig_file, epub_file, temp_file, files_to_remove,
                   images_to_downscale, item_idx, zout, move_how>>
    /\ UNCHANGED <<countVars, metricsVars, batchVars>>

\* line 434: zipfile.ZipFile(temp_epub, 'w') raises; nothing is created, and a
\* file already there stays as it is
PE_OpenTempFails ==
    /\ pe_pc = "start"
    /\ epub_file.kind = "zip"
    /\ pe_pc' = "except"
    /\ pe_error' = "open_temp"
    /\ UNCHANGED <<mode, orig_file, epub_file, temp_file, files_to_remove,
                   images_to_downscale, item_idx, zout, move_how>>
    /\ UNCHANGED <<countVars, metricsVars, batchVars>>

NamesOf(entries) == {entries[k].filename : k \in 1..Len(entries)}

\* lines 434-453: both archives open, the temporary one created empty, and
\* every name classified
PE_Open ==
    /\ pe_pc = "start"
    /\ epub_file.kind = "zip"
    /\ temp_file' = Partial(<<>>)
    /\ files_to_remove' = {f \in NamesOf(epub_file.entries) : Removed(f, mode)}
    /\ images_to_downscale' = {f \in NamesOf(epub_file.entries) : Downscaled(f, mode)}
    /\ item_idx' = 0
    /\ zout' = <<>>
    /\ pe_pc' = "copy"
    /\ UNCHANGED <<mode, orig_file, epub_file, pe_error, move_how>>
    /\ UNCHANGED <<countVars, metricsVars, batchVars>>

\* lines 513-516: mimetype is written stored, any other entry as its ZipInfo says
Written(item) ==
    IF item.filename = NameMimetype
    THEN [item EXCEPT !.compress_type = "ZIP_STORED"]
    ELSE item

\* lines 456-458: an entry classified for removal is passed over
PE_SkipEntry ==
    /\ pe_pc = "copy"
    /\ item_idx < Len(epub_file.entries)
    /\ epub_file.entries[item_idx + 1].filename \in files_to_remove
    /\ item_idx' = item_idx + 1
    /\ UNCHANGED <<mode, orig_file, epub_file, temp_file, files_to_remove,
                   images_to_downscale, zout, pe_pc, pe_error, move_how>>
    /\ UNCHANGED <<countVars, metricsVars, batchVars>>

\* lines 460-516: an entry is read and written to the temporary archive
PE_CopyEntry ==
    /\ pe_pc = "copy"
    /\ item_idx < Len(epub_file.entries)
    /\ epub_file.entries[item_idx + 1].filename \notin files_to_remove
    /\ \E content \in Transformed(epub_file.entries[item_idx + 1],
                                   images_to_downscale, files_to_remove) :
        zout' = Append(zout, [Written(epub_file.entries[item_idx + 1])
                                EXCEPT !.content = content])
    /\ temp_file' = Partial(zout')
    /\ item_idx' = item_idx + 1
    /\ UNCHANGED <<mode, orig_file, epub_file, files_to_remove, images_to_downscale,
                   pe_pc, pe_error, move_how>>
    /\ UNCHANGED <<countVars, metricsVars, batchVars>>

\* lines 460, 514-516: zin.read or zout.writestr raises; leaving the with
\* block closes the temporary archive with the entries written so far
PE_CopyFails ==
    /\ pe_pc = "copy"
    /\ item_idx < Len(epub_file.entries)
    /\ epub_file.entries[item_idx + 1].filename \notin files_to_remove
    /\ \E step \in {"read", "write"} : pe_error' = step
    /\ temp_file' = Partial(zout)
    /\ pe_pc' = "except"
    /\ UNCHANGED <<mode, orig_file, epub_file, files_to_remove, images_to_downscale,
                   item_idx, zout, move_how>>
    /\ UNCHANGED <<countVars, metricsVars, batchVars>>

\* end of the with block: closing the temporary archive writes its directory
PE_Close ==
    /\ pe_pc = "copy"
    /\ item_idx = Len(epub_file.entries)
    /\ temp_file' = ZipFile(zout)
    /\ pe_pc' = "move"
    /\ UNCHANGED <<mode, orig_file, epub_file, files_to_remove, images_to_downscale,
                   item_idx, zout, pe_error, move_how>>
    /\ UNCHANGED <<countVars, metricsVars, batchVars>>

\* end of the with block: the close raises
PE_CloseFails ==
    /\ pe_pc = "copy"
    /\ item_idx = Len(epub_file.entries)
    /\ temp_file' = Partial(zout)
    /\ pe_pc' = "except"
    /\ pe_error' = "close"
    /\ UNCHANGED <<mode, orig_file, epub_file, files_to_remove, images_to_downscale,
                   item_idx, zout, move_how>>
    /\ UNCHANGED <<countVars, metricsVars, batchVars>>

\* line 519, shutil.move: os.rename(src, dst) succeeds
PE_MoveRename ==
    /\ pe_pc = "move"
    /\ epub_file' = temp_file
    /\ temp_file' = Absent
    /\ move_how' = "rename"
    /\ pe_pc' = "returned"
    /\ UNCHANGED <<mode, orig_file, files_to_remove, images_to_downscale, item_idx,
                   zout, pe_error>>
    /\ UNCHANGED <<countVars, metricsVars, batchVars>>

\* line 519, shutil.move: os.rename raises OSError (as it does on Windows when
\* the destination exists), so src is copied over dst and then unlinked
PE_MoveCopy ==
    /\ pe_pc = "move"
    /\ epub_file' = temp_file
    /\ temp_file' = Absent
    /\ move_how' = "copy"
    /\ pe_pc' = "returned"
    /\ UNCHANGED <<mode, orig_file, files_to_remove, images_to_downscale, item_idx,
                   zout, pe_error>>
    /\ UNCHANGED <<countVars, metricsVars, batchVars>>

\* line 519, shutil.move: os.rename raises and the copy cannot open dst
PE_MoveCopyRefused ==
    /\ pe_pc = "move"
    /\ move_how' = "copy"
    /\ pe_error' = "move"
    /\ pe_pc' = "except"
    /\ UNCHANGED <<mode, orig_file, epub_file, temp_file, files_to_remove,
                   images_to_downscale, item_idx, zout>>
    /\ UNCHANGED <<countVars, metricsVars, batchVars>>

\* line 519, shutil.move: os.rename raises and the copy stops midway; dst was
\* truncated when the copy opened it and holds what was copied until then
PE_MoveCopyBreaks ==
    /\ pe_pc = "move"
    /\ \E k \in 0..Len(temp_file.entries) :
        /\ k < Len(temp_file.entries) \/ k = 0
        /\ epub_file' = Partial(SubSeq(temp_file.entries, 1, k))
    /\ move_how' = "copy"
    /\ pe_error' = "move"
    /\ pe_pc' = "except"
    /\ UNCHANGED <<mode, orig_file, temp_file, files_to_remove, images_to_downscale,
                   item_idx, zout>>
    /\ UNCHANGED <<countVars, metricsVars, batchVars>>

\* line 519, shutil.move: the copy is complete and os.unlink(src) raises
PE_MoveUnlinkFails ==
    /\ pe_pc = "move"
    /\ epub_file' = temp_file
    /\ move_how' = "copy"
    /\ pe_error' = "move"
    /\ pe_pc' = "except"
    /\ UNCHANGED <<mode, orig_file, temp_file, files_to_remove, images_to_downscale,
                   item_idx, zout>>
    /\ UNCHANGED <<countVars, metricsVars, batchVars>>

\* lines 522-525: the handler removes the temporary file when there is one
PE_Except ==
    /\ pe_pc = "except"
    /\ temp_file' = Absent
    /\ pe_pc' = "returned"
    /\ UNCHANGED <<mode, orig_file, epub_file, files_to_remove, images_to_downscale,
                   item_idx, zout, pe_error, move_how>>
    /\ UNCHANGED <<countVars, metricsVars, batchVars>>

\* line 525: os.remove raises inside the handler, and process_epub raises
PE_ExceptRemoveFails ==
    /\ pe_pc = "except"
    /\ temp_file # Absent
    /\ pe_pc' = "raised"
    /\ UNCHANGED <<mode, orig_file, epub_file, temp_file, files_to_remove,
                   images_to_downscale, item_idx, zout, pe_error, move_how>>
    /\ UNCHANGED <<countVars, metricsVars, batchVars>>

process_epub ==
    \/ PE_OpenBadZip
    \/ PE_OpenTempFails
    \/ PE_Open
    \/ PE_SkipEntry
    \/ PE_CopyEntry
    \/ PE_CopyFails
    \/ PE_Close
    \/ PE_CloseFails
    \/ PE_MoveRename
    \/ PE_MoveCopy
    \/ PE_MoveCopyRefused
    \/ PE_MoveCopyBreaks
    \/ PE_MoveUnlinkFails
    \/ PE_Except
    \/ PE_ExceptRemoveFails

\* process_epub is not running
ArchiveIdle ==
    /\ mode = "none"
    /\ orig_file = Absent
    /\ epub_file = Absent
    /\ temp_file = Absent
    /\ files_to_remove = {}
    /\ images_to_downscale = {}
    /\ item_idx = 0
    /\ zout = <<>>
    /\ pe_pc = "idle"
    /\ pe_error = "none"
    /\ move_how = "none"

-----------------------------------------------------------------------------
(* main and process_single_epub *)

\* most book files in the target directory
MaxBooks == 2
\* most worker processes
MaxWorkers == 2

\* line 16
SDCARD_BOOKS_ROOT == B(<<"/", "s", "d", "c", "a", "r", "d", "/", "b", "o", "o", "k", "s">>)

\* str(n) for n >= 0
RECURSIVE Str(_)
Str(n) ==
    LET digit == <<48 + (n % 10)>> IN
    IF n < 10 THEN digit ELSE Str(n \div 10) \o digit

\* str.replace of one character by another
Replace(s, from, to) == [k \in 1..Len(s) |-> IF s[k] = from THEN to ELSE s[k]]

\* lines 527-529
sanitize(s) ==
    Replace(Replace(Replace(s, Ord["|"], Ord["-"]), Ord["LF"], Ord["SP"]),
            Ord["CR"], Ord["SP"])

\* what \s matches and str.strip() strips, within the model's alphabet
IsSpace(b) == b \in {Ord["SP"], Ord["LF"], Ord["CR"], Ord["VT"]}

\* str.strip()
strip(s) ==
    LET at == {k \in 1..Len(s) : ~IsSpace(s[k])} IN
    IF at = {} THEN <<>>
    ELSE SubSeq(s, CHOOSE x \in at : \A y \in at : x <= y,
                   CHOOSE x \in at : \A y \in at : x >= y)

\* re.sub(r"\s+", " ", s): each run of whitespace becomes one space
CollapseSpaces(s) ==
    LET kept == {k \in 1..Len(s) : ~IsSpace(s[k]) \/ k = 1 \/ ~IsSpace(s[k - 1])}
        Nth(n) == CHOOSE k \in kept : Cardinality({x \in kept : x <= k}) = n
    IN  [n \in 1..Cardinality(kept) |->
            IF IsSpace(s[Nth(n)]) THEN Ord["SP"] ELSE s[Nth(n)]]

\* the characters of invalid_chars (line 274) that the model's alphabet has
InvalidChars == {Ord["<"], Ord[">"], Ord["Q"], Ord["/"], Ord["|"], Ord["*"]}

\* lines 269-277
clean_filename(name) ==
    LET stripped == strip(name)
        spaced == [k \in 1..Len(stripped) |->
                    IF stripped[k] \in InvalidChars THEN Ord["SP"] ELSE stripped[k]]
    IN  strip(CollapseSpaces(spaced))

\* Path.suffix and Path.stem of a file name
suffix(name) ==
    LET k == LastIndex(name, Ord["."]) IN
    IF k > 1 /\ k < Len(name) THEN SubSeq(name, k, Len(name)) ELSE <<>>

stem(name) == SubSeq(name, 1, Len(name) - Len(suffix(name)))

\* the order of sorted() on str
LexLess(a, b) ==
    \E k \in 1..(Len(b)) :
        /\ k <= Len(a) + 1
        /\ SubSeq(a, 1, k - 1) = SubSeq(b, 1, k - 1)
        /\ (k = Len(a) + 1 \/ a[k] < b[k])

\* sorted(S) for a set of names
Sorted(S) ==
    [n \in 1..Cardinality(S) |->
        CHOOSE x \in S : Cardinality({y \in S : LexLess(y, x)}) = n - 1]

\* None where the code expects a str
NoText == <<-1>>

DotEpub == B(<<".", "e", "p", "u", "b">>)

\* a file of the target directory: kind is "book" (an EPUB whose OPF names
\* title and author), "garbage" (not a readable archive), "dir" (a directory)
\* or "other"; id tells the files apart whatever their names become
File(id, name, kind, title, author, size) ==
    [id |-> id, name |-> name, kind |-> kind, title |-> title, author |-> author,
     size |-> size, rewritten |-> FALSE]

TitleT == B(<<"T">>)
AuthorA == B(<<"A">>)

FileA == File(1, B(<<"a">>) \o DotEpub, "book", TitleT, AuthorA, 40)
FileB == File(2, B(<<"b">>) \o DotEpub, "book", TitleT, AuthorA, 41)
FileC == File(3, B(<<"c">>) \o DotEpub, "garbage", <<>>, <<>>, 9)
FilePipe == File(4, B(<<"p", "|", "q">>) \o DotEpub, "garbage", <<>>, <<>>, 12)
FileN == File(5, B(<<"n">>) \o DotEpub, "book", B(<<"x", "|", "y">>),
              B(<<"c", "CR", "d">>), 42)
FileTA == File(6, B(<<"T", "SP", "-", "SP", "A">>) \o DotEpub, "book", TitleT, AuthorA, 43)
FileD == File(7, B(<<"d">>) \o DotEpub, "dir", <<>>, <<>>, 0)
FileE == File(8, B(<<"E", ".", "E", "P", "U", "B">>), "book", <<>>, <<>>, 44)
FileL == File(9, B(<<"l">>) \o DotEpub, "book", B(<<"x", "LF", "y">>), <<>>, 45)
FileR == File(10, B(<<"r", ".", "t", "x", "t">>), "other", <<>>, <<>>, 5)

\* a book whose title is the stem of FileA's name
FileK == File(11, B(<<"k">>) \o DotEpub, "book", B(<<"a">>), <<>>, 46)

FilePool ==
    {FileA, FileB, FileC, FilePipe, FileN, FileTA, FileD, FileE, FileL, FileR, FileK}

\* lines 568-572: the names main discovers
IsEpubName(name) == EndsWith(Lower(name), DotEpub)

\* the books that compete for one name, and a file that is no archive
CollisionFiles == {FileA, FileB, FileTA, FileC}

\* the directories a run starts from: at most MaxBooks files, any two files of
\* the pool, more of them out of CollisionFiles
Directories ==
    {d \in SUBSET FilePool :
        /\ Cardinality(d) <= MaxBooks
        /\ Cardinality(d) > 2 => d \subseteq CollisionFiles}

\* a task of executor.map, or one turn of the sequential loop
Task(path) ==
    [pc |-> "queued", path |-> path, final |-> path, target |-> <<>>, has_metrics |-> 0,
     title |-> <<>>, author |-> <<>>, size |-> 0]

BatchInit ==
    /\ dir_exists \in BOOLEAN
    /\ dir0 \in IF dir_exists THEN Directories ELSE {{}}
    /\ dir = dir0
    /\ metrics_files = {}
    /\ epub_paths = <<>>
    /\ max_workers = 0
    /\ tasks = <<>>
    /\ results = <<>>
    /\ index_entries = <<>>
    /\ index_file = <<>>
    /\ index_opens = 0
    /\ main_pc = "start"

Min(a, b) == IF a <= b THEN a ELSE b

NamesIn(d) == {f.name : f \in d}

\* lines 568-579: discovery, the early return, the number of workers
M_Scan ==
    /\ main_pc = "start"
    /\ dir_exists
    /\ LET found == Sorted({n \in NamesIn(dir) : IsEpubName(n)}) IN
       /\ epub_paths' = found
       /\ tasks' = [k \in 1..Len(found) |-> Task(found[k])]
       /\ IF found = <<>>
             THEN /\ main_pc' = "returned"
                  /\ max_workers' = 0
             ELSE /\ main_pc' = "running"
                  /\ \E workers \in 1..MaxWorkers :
                        max_workers' = Min(workers, Len(found))
    /\ UNCHANGED <<dir_exists, dir0, dir, metrics_files, results, index_entries, index_file,
                   index_opens>>
    /\ UNCHANGED <<countVars, metricsVars, archiveVars>>

\* line 570: os.listdir raises when target_dir names no directory, and nothing
\* in main catches it
M_ListdirRaises ==
    /\ main_pc = "start"
    /\ ~dir_exists
    /\ main_pc' = "raised"
    /\ UNCHANGED <<dir_exists, dir0, dir, metrics_files, epub_paths, max_workers, tasks, results,
                   index_entries, index_file, index_opens>>
    /\ UNCHANGED <<countVars, metricsVars, archiveVars>>

PathExists(name) == name \in NamesIn(dir)

FileAt(name) == CHOOSE f \in dir : f.name = name

\* Path.is_file()
is_file(name) == PathExists(name) /\ FileAt(name).kind # "dir"

\* the steps of process_single_epub between its first and its last line
Running(k) == tasks[k].pc \in {"transform", "rename_check", "rename", "metrics", "metadata"}

\* lines 581-591: the pool hands the paths out in order to at most max_workers
\* workers; the loop calls process_single_epub when the call before has returned
\* and its result is appended
MayStart(k) ==
    IF max_workers > 1
       THEN /\ \A j \in 1..(k - 1) : tasks[j].pc # "queued"
            /\ Cardinality({j \in DOMAIN tasks : Running(j)}) < max_workers
       ELSE \A j \in 1..(k - 1) : tasks[j].pc = "collected"

TaskVarsUnchanged ==
    /\ UNCHANGED <<dir_exists, dir0, epub_paths, max_workers, results, index_entries,
                   index_file, index_opens, main_pc>>
    /\ UNCHANGED <<countVars, metricsVars, archiveVars>>

\* lines 532-534
PS_Start ==
    \E k \in DOMAIN tasks :
    /\ main_pc = "running"
    /\ tasks[k].pc = "queued"
    /\ MayStart(k)
    /\ tasks' = [tasks EXCEPT ![k].pc =
                    IF is_file(tasks[k].path) THEN "transform" ELSE "returned_none"]
    /\ UNCHANGED <<dir, metrics_files>>
    /\ TaskVarsUnchanged

\* the file with its content replaced
Put(f, g) == (dir \ {f}) \cup {g}

\* line 536, process_epub: the archive is rewritten in place
PS_TransformDone ==
    \E k \in DOMAIN tasks :
    /\ tasks[k].pc = "transform"
    /\ LET f == FileAt(tasks[k].path) IN
       /\ f.kind = "book"
       /\ dir' = Put(f, [f EXCEPT !.rewritten = TRUE, !.size = f.size - 1])
    /\ tasks' = [tasks EXCEPT ![k].pc = "rename_check"]
    /\ UNCHANGED metrics_files
    /\ TaskVarsUnchanged

\* lines 522-525: the archive cannot be opened or a write fails, the handler
\* removes the temporary file, process_epub returns
PS_TransformCaught ==
    \E k \in DOMAIN tasks :
    /\ tasks[k].pc = "transform"
    /\ tasks' = [tasks EXCEPT ![k].pc = "rename_check"]
    /\ UNCHANGED <<dir, metrics_files>>
    /\ TaskVarsUnchanged

\* line 519: shutil.move copies over the original and breaks off
PS_TransformTruncates ==
    \E k \in DOMAIN tasks :
    /\ tasks[k].pc = "transform"
    /\ LET f == FileAt(tasks[k].path) IN
       /\ f.kind = "book"
       /\ dir' = Put(f, [f EXCEPT !.kind = "garbage", !.size = f.size - 2])
    /\ tasks' = [tasks EXCEPT ![k].pc = "rename_check"]
    /\ UNCHANGED metrics_files
    /\ TaskVarsUnchanged

\* line 525: os.remove of the temporary file raises inside the handler
PS_TransformRaises ==
    \E k \in DOMAIN tasks :
    /\ tasks[k].pc = "transform"
    /\ FileAt(tasks[k].path).kind = "book"
    /\ tasks' = [tasks EXCEPT ![k].pc = "raised"]
    /\ UNCHANGED <<dir, metrics_files>>
    /\ TaskVarsUnchanged

\* the text of an element as both metadata readers return it
ElementText(text) == strip(text)

\* lines 279-341 and 188-248: can the metadata be read
MetadataFound(f) == f.kind = "book"

\* lines 350-369: the stem of the new name, <<>> when there is none
new_stem(f, path) ==
    LET t0 == clean_filename(ElementText(f.title))
        author == clean_filename(ElementText(f.author))
        title == IF t0 = <<>> THEN clean_filename(stem(path)) ELSE t0
    IN  IF title = <<>> THEN <<>>
        ELSE IF author # <<>> THEN strip(title \o B(<<"SP", "-", "SP">>) \o author)
        ELSE strip(title)

\* lines 371-372
TargetOf(f, path) == new_stem(f, path) \o suffix(path)

\* target.exists() answers that nothing has the name
NothingExists(name) == FALSE

\* line 378
target_exists(name) == PathExists(name)

\* lines 259-380: everything of rename_epub_by_metadata before the rename
RN_Check ==
    \E k \in DOMAIN tasks :
    /\ tasks[k].pc = "rename_check"
    /\ LET path == tasks[k].path
           f == FileAt(path)
           target == TargetOf(f, path)
       IN  IF \/ Lower(suffix(path)) # DotEpub
              \/ ~MetadataFound(f)
              \/ new_stem(f, path) = <<>>
              \/ target = path
              \/ target_exists(target)
              THEN tasks' = [tasks EXCEPT ![k].pc = "metrics", ![k].final = path]
              ELSE tasks' = [tasks EXCEPT ![k].pc = "rename", ![k].target = target]
    /\ UNCHANGED <<dir, metrics_files>>
    /\ TaskVarsUnchanged

\* lines 382-384: Path.rename; on POSIX a file that has the target name by now
\* is replaced
RN_Rename ==
    \E k \in DOMAIN tasks :
    /\ tasks[k].pc = "rename"
    /\ LET f == FileAt(tasks[k].path)
           target == tasks[k].target
       IN  dir' = {g \in dir : g.name # target /\ g # f} \cup {[f EXCEPT !.name = target]}
    /\ tasks' = [tasks EXCEPT ![k].pc = "metrics", ![k].final = tasks[k].target]
    /\ UNCHANGED metrics_files
    /\ TaskVarsUnchanged

\* lines 386-388: Path.rename raises (on Windows when the target exists by
\* now, anywhere when the directory refuses), the book keeps its name
RN_RenameFails ==
    \E k \in DOMAIN tasks :
    /\ tasks[k].pc = "rename"
    /\ tasks' = [tasks EXCEPT ![k].pc = "metrics", ![k].final = tasks[k].path]
    /\ UNCHANGED <<dir, metrics_files>>
    /\ TaskVarsUnchanged

\* line 87-88: the metrics file of a book is named after its stem
MetricsAt(name) == {m \in metrics_files : m.stem = stem(name)}

\* lines 90-92
PS_MetricsExists ==
    \E k \in DOMAIN tasks :
    /\ tasks[k].pc = "metrics"
    /\ MetricsAt(tasks[k].final) # {}
    /\ tasks' = [tasks EXCEPT ![k].pc = "metadata", ![k].has_metrics = 1]
    /\ UNCHANGED <<dir, metrics_files>>
    /\ TaskVarsUnchanged

\* lines 96-182
PS_MetricsWritten ==
    \E k \in DOMAIN tasks :
    /\ tasks[k].pc = "metrics"
    /\ MetricsAt(tasks[k].final) = {}
    /\ FileAt(tasks[k].final).kind = "book"
    /\ metrics_files' = metrics_files \cup {[stem |-> stem(tasks[k].final), complete |-> TRUE]}
    /\ tasks' = [tasks EXCEPT ![k].pc = "metadata", ![k].has_metrics = 1]
    /\ UNCHANGED dir
    /\ TaskVarsUnchanged

\* lines 184-186: the archive cannot be read, or the metrics file cannot be
\* opened, or a write to it fails and leaves the part written so far
PS_MetricsFails ==
    \E k \in DOMAIN tasks :
    /\ tasks[k].pc = "metrics"
    /\ MetricsAt(tasks[k].final) = {}
    /\ \/ UNCHANGED metrics_files
       \/ /\ FileAt(tasks[k].final).kind = "book"
          /\ metrics_files' =
                metrics_files \cup {[stem |-> stem(tasks[k].final), complete |-> FALSE]}
    /\ tasks' = [tasks EXCEPT ![k].pc = "metadata", ![k].has_metrics = 0]
    /\ UNCHANGED dir
    /\ TaskVarsUnchanged

\* lines 543-553: get_metadata (lines 188-248), the title falls back to the stem
PS_Metadata ==
    \E k \in DOMAIN tasks :
    /\ tasks[k].pc = "metadata"
    /\ LET final == tasks[k].final
           f == FileAt(final)
       IN  tasks' = [tasks EXCEPT
                ![k].pc = "returned",
                ![k].title = IF MetadataFound(f) THEN ElementText(f.title) ELSE stem(final),
                ![k].author = IF MetadataFound(f) THEN ElementText(f.author) ELSE NoText,
                ![k].size = f.size]
    /\ UNCHANGED <<dir, metrics_files>>
    /\ TaskVarsUnchanged

\* the task whose result the main process takes next
NextTask == CHOOSE k \in DOMAIN tasks :
                tasks[k].pc # "collected" /\ \A j \in 1..(k - 1) : tasks[j].pc = "collected"

\* the catalog is written whenever main gets a turn
AnyTime == TRUE

AllCollected == \A k \in DOMAIN tasks : tasks[k].pc = "collected"

\* lines 547-553
ResultOf(t) ==
    [name |-> t.final, title |-> t.title, author |-> t.author, size |-> t.size,
     has_metrics |-> t.has_metrics]

MainVarsUnchanged ==
    /\ UNCHANGED <<dir_exists, dir0, dir, metrics_files, epub_paths, max_workers>>
    /\ UNCHANGED <<countVars, metricsVars, archiveVars>>

\* lines 584-586 and 589-591: results come in the order of epub_paths
M_Collect ==
    /\ main_pc = "running"
    /\ ~AllCollected
    /\ tasks[NextTask].pc \in {"returned", "returned_none"}
    /\ results' = IF tasks[NextTask].pc = "returned"
                     THEN Append(results, ResultOf(tasks[NextTask]))
                     ELSE results
    /\ tasks' = [tasks EXCEPT ![NextTask].pc = "collected"]
    /\ UNCHANGED <<index_entries, index_file, index_opens, main_pc>>
    /\ MainVarsUnchanged

\* lines 584 and 589: what process_single_epub raised is raised in main
M_Raise ==
    /\ main_pc = "running"
    /\ ~AllCollected
    /\ tasks[NextTask].pc = "raised"
    /\ main_pc' = "raised"
    /\ UNCHANGED <<tasks, results, index_entries, index_file, index_opens>>
    /\ MainVarsUnchanged

Bar == B(<<"|">>)

\* the id of the next line stays what it is
SameBookId(book_id) == book_id

\* line 601
NextBookId(book_id) == book_id + 1

\* lines 596-599
IndexEntry(book_id, result) ==
    LET title == sanitize(result.title)
        author == IF result.author \in {NoText, <<>>} THEN <<>> ELSE sanitize(result.author)
        index_path == SDCARD_BOOKS_ROOT \o B(<<"/">>) \o result.name
    IN  Str(book_id) \o Bar \o title \o Bar \o Str(0) \o Bar \o Str(0) \o Bar \o index_path
        \o Bar \o Str(result.size) \o Bar \o Str(result.has_metrics) \o Bar \o author
        \o Bar \o Str(0) \o Bar \o Bar \o B(<<"1", ".", "0">>)

\* lines 593-601
RECURSIVE BuildEntries(_, _)
BuildEntries(rs, book_id) ==
    IF rs = <<>> THEN <<>>
    ELSE <<IndexEntry(book_id, Head(rs))>> \o BuildEntries(Tail(rs), NextBookId(book_id))

\* lines 603-607
M_WriteIndex ==
    /\ main_pc = "running"
    /\ AllCollected
    /\ index_entries' = BuildEntries(results, 1)
    /\ index_file' = Flatten([k \in 1..Len(results) |->
                                 BuildEntries(results, 1)[k] \o B(<<"LF">>)])
    /\ index_opens' = index_opens + 1
    /\ main_pc' = "returned"
    /\ UNCHANGED <<tasks, results>>
    /\ MainVarsUnchanged

BatchNext ==
    \/ M_Scan
    \/ M_ListdirRaises
    \/ PS_Start
    \/ PS_TransformDone
    \/ PS_TransformCaught
    \/ PS_TransformTruncates
    \/ PS_TransformRaises
    \/ RN_Check
    \/ RN_Rename
    \/ RN_RenameFails
    \/ PS_MetricsExists
    \/ PS_MetricsWritten
    \/ PS_MetricsFails
    \/ PS_Metadata
    \/ M_Collect
    \/ M_Raise
    \/ M_WriteIndex


\* no batch is running
BatchIdle ==
    /\ dir_exists = FALSE
    /\ dir0 = {}
    /\ dir = {}
    /\ metrics_files = {}
    /\ epub_paths = <<>>
    /\ max_workers = 0
    /\ tasks = <<>>
    /\ results = <<>>
    /\ index_entries = <<>>
    /\ index_file = <<>>
    /\ index_opens = 0
    /\ main_pc = "idle"

-----------------------------------------------------------------------------
(* Specifications *)

\* count_chapter_length on one input
InitCount == CountInit /\ MetricsIdle /\ ArchiveIdle /\ BatchIdle

SpecCount == InitCount /\ [][CountNext]_vars

\* generate_metrics called on one book, up to MaxCalls times
InitMetrics == MetricsInit /\ CountIdle /\ ArchiveIdle /\ BatchIdle

SpecMetrics == InitMetrics /\ [][generate_metrics]_vars

\* process_epub called on one archive
InitArchive == ArchiveInit /\ CountIdle /\ MetricsIdle /\ BatchIdle

SpecArchive == InitArchive /\ [][process_epub]_vars

\* main on one directory
InitBatch == BatchInit /\ CountIdle /\ MetricsIdle /\ ArchiveIdle

SpecBatch == InitBatch /\ [][BatchNext]_vars

-----------------------------------------------------------------------------
(* Properties of generate_metrics, checked under SpecMetrics *)

\* the spine entries: the itemrefs that resolve through the manifest
SpineEntries == SelectSeq(spine_refs, LAMBDA r : r \in DOMAIN manifest)

\* what a spine entry counts: its visible characters, 0 when its file is
\* missing from the archive or cannot be read
EntryLength(idref) ==
    LET file == ZfRead(dirname(opf_path), FullPath(dirname(opf_path), manifest[idref])) IN
    IF file.kind = "ok" THEN ContentLength(file) ELSE W(0)

\* the sum of EntryLength over the first k spine entries
RECURSIVE SumTo(_)
SumTo(k) == IF k = 0 THEN W(0) ELSE WAdd(SumTo(k - 1), EntryLength(SpineEntries[k]))

\* the last call built the whole table and went on to write it
TableBuilt == gm_outcome \in {"written", "write_error", "pack_error", "open_error"}

\* the 32-bit little-endian value at position pos (1-based) of the file f
U32At(f, pos) == [hi |-> f[pos + 2] + 256 * f[pos + 3], lo |-> f[pos] + 256 * f[pos + 1]]

\* C1: a table that generate_metrics goes on to write has one entry per spine
\* entry plus one, starts at 0, never decreases and ends at the total visible
\* character count, whichever chapter files are readable, missing or unreadable.
C1_TableShape ==
    TableBuilt =>
        /\ Len(chapter_offsets) = Len(SpineEntries) + 1
        /\ chapter_offsets[1] = W(0)
        /\ \A k \in 1..(Len(chapter_offsets) - 1) :
            WLeq(chapter_offsets[k], chapter_offsets[k + 1])
        /\ chapter_offsets[Len(chapter_offsets)] = SumTo(Len(SpineEntries))
        /\ cumulative_length = SumTo(Len(SpineEntries))

C1_Witness ==
    /\ gm_outcome = "written"
    /\ spine_refs = <<"missing", "unreadable", "c2">>
    /\ Len(chapter_offsets) = 4
    /\ chapter_offsets[4] = W(50)

\* C2: entry k+1 of the table is the sum of the counted lengths of spine
\* entries 1..k, a missing or unreadable chapter counting 0 and later chapters
\* still being processed; lengths 100, missing, 50 give [0, 100, 100, 150],
\* total 150 and entry_count 4.
C2_CumulativeSums ==
    /\ TableBuilt =>
        \A k \in 0..Len(SpineEntries) : chapter_offsets[k + 1] = SumTo(k)
    /\ (TableBuilt /\ spine_refs = <<"c1", "missing", "c2">>) =>
        /\ chapter_offsets = <<W(0), W(100), W(100), W(150)>>
        /\ cumulative_length = W(150)
    /\ (gm_outcome = "written" /\ spine_refs = <<"c1", "missing", "c2">>) =>
        /\ SubSeq(metrics_file, 2, 5) = <<150, 0, 0, 0>>
        /\ SubSeq(metrics_file, 6, 9) = <<4, 0, 0, 0>>

C2_Witness ==
    /\ gm_outcome = "written"
    /\ spine_refs = <<"c1", "missing", "c2">>
    /\ chapter_offsets = <<W(0), W(100), W(100), W(150)>>
    /\ SubSeq(metrics_file, 6, 9) = <<4, 0, 0, 0>>

\* C3: a call that finds the metrics file present returns True, opens nothing
\* for writing and leaves the file as it is; so once a call has returned True,
\* further calls on the same book never change the file.
C3_Idempotent ==
    [][/\ metrics_file # NoFile =>
            /\ metrics_file' = metrics_file
            /\ gm_writes' = gm_writes
            /\ gm_ret' = "True"
       /\ gm_ret = "True" => metrics_file' = metrics_file]_vars

C3_Witness ==
    /\ gm_calls = 2
    /\ gm_outcome = "exists"
    /\ gm_ret = "True"
    /\ gm_writes = 1
    /\ Len(metrics_file) = 9 + 4 * (Len(SpineEntries) + 1)
    /\ Len(SpineEntries) >= 2

\* C4: a file written by a successful call is: the byte 1, the total as four
\* little-endian bytes, entry_count = spine entries + 1 as four little-endian
\* bytes, then entry_count offsets of four little-endian bytes each; its length
\* is 9 + 4 * entry_count, and every value written is below 2^32.
C4_FileLayout ==
    gm_outcome = "written" =>
        LET n == Len(SpineEntries) + 1 IN
        /\ Len(metrics_file) = 9 + 4 * n
        /\ \A k \in 1..Len(metrics_file) : metrics_file[k] \in 0..255
        /\ metrics_file[1] = 1
        /\ U32At(metrics_file, 2) = chapter_offsets[Len(chapter_offsets)]
        /\ U32At(metrics_file, 2) = SumTo(n - 1)
        /\ U32At(metrics_file, 6) = W(n)
        /\ \A k \in 1..n : U32At(metrics_file, 6 + 4 * k) = SumTo(k - 1)
        /\ \A k \in 1..n : FitsU32(chapter_offsets[k])

C4_Witness ==
    /\ gm_outcome = "written"
    /\ gm_ret = "True"
    /\ spine_refs = <<"big", "c1">>
    /\ Len(metrics_file) = 21
    /\ SubSeq(metrics_file, 2, 5) = <<236, 255, 255, 255>>

-----------------------------------------------------------------------------
(* Properties of count_chapter_length, checked under SpecCount *)

Prefix(k) == SubSeq(data, 1, k)
Suffix(k) == SubSeq(data, k + 1, Len(data))

\* s is a concatenation of whitespace bytes and listed block tags
RECURSIVE IsRunBody(_)
IsRunBody(s) ==
    \/ s = <<>>
    \/ /\ s # <<>>
       /\ Head(s) \in {32, 10, 13}
       /\ IsRunBody(Tail(s))
    \/ \E t \in BlockTagTexts :
        /\ StartsWith(s, TagOf(t))
        /\ IsRunBody(SubSeq(s, Len(t) + 3, Len(s)))

IsBoundaryRun(s) == s # <<>> /\ IsRunBody(s)

\* the scan of the first k bytes ended outside a tag on a non-space emission
NonSpaceEmitted(k) == LET st == Scan(Prefix(k)) IN ~st.in_tag /\ ~st.last_space

\* data[p+1..q] is one well-formed tag <t>, opened outside a tag
IsTagAt(p, q) ==
    /\ 0 <= p /\ p + 2 <= q /\ q <= Len(data)
    /\ data[p + 1] = 60
    /\ data[q] = 62
    /\ \A k \in (p + 2)..(q - 1) : data[k] \notin {60, 62} /\ data[k] < 128
    /\ ~Scan(Prefix(p)).in_tag

TagTextAt(p, q) == SubSeq(data, p + 2, q - 1)

\* the tag name: the lower-cased tag text up to its first space
RECURSIVE UpToSpace(_)
UpToSpace(t) ==
    IF t = <<>> \/ Head(t) = 32 THEN <<>> ELSE <<Head(t)>> \o UpToSpace(Tail(t))

TagName(t) == UpToSpace(Lower(t))

NamedBlock(t) ==
    LET nm == TagName(t) IN
    \/ nm \in {B(<<"p">>), B(<<"/", "p">>), B(<<"d", "i", "v">>),
               B(<<"/", "d", "i", "v">>), B(<<"b", "r">>), B(<<"b", "r", "/">>),
               B(<<"l", "i">>), B(<<"/", "l", "i">>)}
    \/ StartsWith(nm, B(<<"h">>))
    \/ StartsWith(nm, B(<<"/", "h">>))

NamedImg(t) == TagName(t) = B(<<"i", "m", "g">>)

RunHolds ==
    \A p \in 0..i :
        (p < i /\ NonSpaceEmitted(p) /\ IsBoundaryRun(SubSeq(data, p + 1, i)))
            => length = Scan(Prefix(p)).length + 1 /\ last_space /\ ~in_tag

\* C5 (as amended): a run of space, newline, carriage-return bytes and block
\* tags that follows a non-space emission has contributed exactly one unit
\* when the scan reaches its end, whatever its length and composition; the
\* input "<p>Hello</p>\n<p>World</p>" counts 12, the closing </p> after
\* "World" emitting one more boundary unit.
C5_RunIsOneUnit ==
    /\ RunHolds
    /\ (count_pc = "done" /\ data = ExHelloWorld) => length = 12

\* C5 as stated: the same, with the example counting 11.
C5_AsStated ==
    /\ RunHolds
    /\ (count_pc = "done" /\ data = ExHelloWorld) => length = 11

C5_Witness ==
    /\ count_pc = "done"
    /\ data = ExHelloWorld
    /\ length = 12
    /\ NonSpaceEmitted(8)
    /\ IsBoundaryRun(SubSeq(data, 9, 16))
    /\ Scan(Prefix(16)).length = Scan(Prefix(8)).length + 1

\* C6: an input made only of space, newline, carriage-return bytes and block
\* tags never counts more than 1, at any point of the scan.
C6_WhitespaceCollapses == IsRunBody(data) => length <= 1

C6_Witness ==
    /\ count_pc = "done"
    /\ IsBoundaryRun(data)
    /\ Len(data) >= 5
    /\ \E k \in 1..Len(data) : data[k] = 32
    /\ length <= 1

ImgHolds ==
    \A p \in 0..i :
        (IsTagAt(p, i) /\ NamedImg(TagTextAt(p, i)))
            => length = Scan(Prefix(p)).length + 7 /\ ~last_space

\* C7 (as amended): a tag whose lower-cased text is img, or img followed by a
\* space and attributes, contributes a flat 7 units wherever it stands, and an
\* unknown tag contributes 0: "<img>" and "<img src="x.png"/>" count 7,
\* "<IMG src=x>" counts 7, "<span></span>" counts 0; "<img/>" counts 0, its
\* tag text "img/" being neither form.
C7_ImgCost ==
    /\ ImgHolds
    /\ count_pc = "done" =>
        /\ data = ExImgBare => length = 7
        /\ data = ExImgSrc => length = 7
        /\ data = ExImgUpper => length = 7
        /\ data = ExSpan => length = 0
        /\ data = ExImgSlash => length = 0

\* C7 as stated: "<img/>" counts 7 too.
C7_AsStated ==
    count_pc = "done" =>
        /\ data = ExImgSlash => length = 7
        /\ data = ExImgSrc => length = 7
        /\ data = ExImgUpper => length = 7
        /\ data = ExSpan => length = 0

C7_Witness ==
    /\ count_pc = "done"
    /\ data = ExImgUpper
    /\ IsTagAt(0, Len(data))
    /\ NamedImg(TagTextAt(0, Len(data)))
    /\ length = 7

\* C8: a well-formed tag that is neither a block tag nor an img tag is elided:
\* when the scan passes it, the count and the last-space flag are what they
\* were before it, and the whole input counts what it counts without the tag.
C8_UnknownTagElided ==
    /\ \A p \in 0..i :
        (IsTagAt(p, i) /\ ~NamedBlock(TagTextAt(p, i)) /\ ~NamedImg(TagTextAt(p, i)))
            => LET before == Scan(Prefix(p)) IN
                /\ length = before.length
                /\ last_space = before.last_space
                /\ ~in_tag
    /\ count_pc = "done" =>
        \A p \in 0..Len(data), q \in 0..Len(data) :
            (IsTagAt(p, q) /\ ~NamedBlock(TagTextAt(p, q)) /\ ~NamedImg(TagTextAt(p, q)))
                => length = count_chapter_length(Prefix(p) \o Suffix(q))

C8_Witness ==
    /\ count_pc = "done"
    /\ data = B(<<"a", "<", "i", ">", "SP">>)
    /\ IsTagAt(1, 4)
    /\ ~NamedBlock(TagTextAt(1, 4))
    /\ length = 2

-----------------------------------------------------------------------------
(* Properties of process_epub, checked under SpecArchive *)

\* name ends in one of the extensions, whatever the case, after a base name
\* that is more than dots
HasExtension(name, exts) ==
    \E e \in exts :
        LET l == Lower(name)
            d == Len(l) - Len(e)
        IN  /\ d >= 1
            /\ SubSeq(l, d + 1, Len(l)) = e
            /\ \E k \in (LastIndex(l, Ord["/"]) + 1)..d : l[k] # Ord["."]

\* the entries that are to survive the rewrite
Survives(entry) ==
    /\ ~HasExtension(entry.filename, FONT_EXTS)
    /\ ~(mode = "remove" /\ HasExtension(entry.filename, IMAGE_EXTS))

FilenamesOf(entries) == [k \in 1..Len(entries) |-> entries[k].filename]

\* C9: when process_epub returns after an exception at any step, the file at
\* epub_path holds exactly what it held before the call and the temporary
\* file is gone; and the file at epub_path changes only once the temporary
\* archive is complete and closed.
C9_AllOrNothing ==
    /\ (pe_pc = "returned" /\ pe_error # "none") =>
        /\ epub_file = orig_file
        /\ temp_file = Absent
    /\ epub_file # orig_file =>
        /\ item_idx = Len(orig_file.entries)
        /\ pe_pc \in {"except", "returned", "raised"}

\* C10: after a successful process_epub the archive's entry names are the
\* original ones in their original order, less every name with a font
\* extension and, in mode remove, every name with an image extension; while
\* copying, the temporary archive holds just that selection of the entries
\* handled so far.
C10_EntriesPreserved ==
    /\ (pe_pc = "returned" /\ pe_error = "none") =>
        /\ epub_file.kind = "zip"
        /\ FilenamesOf(epub_file.entries)
            = FilenamesOf(SelectSeq(orig_file.entries, Survives))
    /\ pe_pc = "copy" =>
        FilenamesOf(zout)
            = FilenamesOf(SelectSeq(SubSeq(orig_file.entries, 1, item_idx), Survives))

C10_Witness ==
    /\ pe_pc = "returned"
    /\ pe_error = "none"
    /\ mode = "remove"
    /\ FilenamesOf(orig_file.entries)
        = <<B(<<"G", ".", "O", "T", "F">>), B(<<"i", ".", "p", "n", "g">>),
            B(<<"t", ".", "x", "m", "l">>)>>
    /\ FilenamesOf(epub_file.entries) = <<B(<<"t", ".", "x", "m", "l">>)>>

-----------------------------------------------------------------------------
(* Compression of the entries written by process_epub, under SpecArchive *)

\* C11: after a successful process_epub on an archive with a mimetype entry,
\* the output has the mimetype entry, stored, at the place it had among the
\* surviving entries, and every other entry of the output is deflated.
C11_MimetypeStoredRestDeflated ==
    (/\ pe_pc = "returned"
     /\ pe_error = "none"
     /\ NameMimetype \in NamesOf(orig_file.entries)) =>
        LET out == epub_file.entries
            surviving == SelectSeq(orig_file.entries, Survives)
        IN  /\ Len(out) = Len(surviving)
            /\ \E k \in 1..Len(out) : out[k].filename = NameMimetype
            /\ \A k \in 1..Len(out) :
                /\ out[k].filename = surviving[k].filename
                /\ out[k].compress_type =
                    IF out[k].filename = NameMimetype THEN "ZIP_STORED" ELSE "ZIP_DEFLATED"

-----------------------------------------------------------------------------
(* Downscaling, under SpecArchive *)

\* process_epub has returned without an exception, in mode downscale
DownscaleDone == pe_pc = "returned" /\ pe_error = "none" /\ mode = "downscale"

\* the entries of the output that carry an image extension, as indices
ImageEntries == {k \in 1..Len(epub_file.entries) :
                    HasExtension(epub_file.entries[k].filename, IMAGE_EXTS)}

WithinBounds(pic) == pic.width <= 960 /\ pic.height <= 540

\* C12, as stated: after a successful process_epub in mode downscale every
\* image entry of the output is at most 960 wide and 540 high, whether or not
\* a step of the codec failed on it.
C12_AsStated ==
    DownscaleDone =>
        \A k \in ImageEntries : WithinBounds(epub_file.entries[k].content.image)

\* C12, amended: after a successful process_epub in mode downscale, an image
\* entry either holds the bytes it held before or holds a picture with both
\* sides at least 1, at most 960 wide and 540 high.  It holds its old bytes
\* when the picture was within the bounds, and when the decode, the resize or
\* the re-encode failed on it; an oversize picture on which nothing fails is
\* kept only when one of its sides scales to less than one pixel (the resize
\* then fails).
C12_DownscaledOrKept ==
    DownscaleDone =>
        LET before == SelectSeq(orig_file.entries, Survives) IN
        /\ Len(before) = Len(epub_file.entries)
        /\ \A k \in ImageEntries :
            LET old == before[k].content.image
                new == epub_file.entries[k].content.image
            IN  /\ WithinBounds(old) => new = old
                /\ old.fails # "none" => new = old
                /\ new # old =>
                    /\ WithinBounds(new)
                    /\ new.width >= 1
                    /\ new.height >= 1
                /\ (new = old /\ old.fails = "none" /\ ~WithinBounds(old)) =>
                    \/ old.height * 960 <= old.width
                    \/ old.width * 540 <= old.height

\* a 4000 x 3000 picture has come out within the bounds, and so has a run in
\* which the re-encode of an oversize picture failed
C12_Witness ==
    /\ DownscaleDone
    /\ \E k \in ImageEntries :
        /\ orig_file.entries[k].content.image = Picture(4000, 3000, "none")
        /\ epub_file.entries[k].content.image.width \in {719, 720}
        /\ epub_file.entries[k].content.image.height \in {539, 540}

-----------------------------------------------------------------------------
(* Pruning of the package document, under SpecArchive *)

\* the places of a text at which a line begins
LineStarts(t) ==
    {p \in 1..Len(t) :
        \/ p = 1
        \/ /\ IsLineBreak(t[p - 1])
           /\ ~(t[p - 1] = Ord["CR"] /\ t[p] = Ord["LF"])}

\* the line beginning at p, without its terminator
LineAt(t, p) ==
    LET ends == {q \in p..Len(t) : IsLineBreak(t[q])}
        q == IF ends = {} THEN Len(t) + 1 ELSE CHOOSE x \in ends : \A y \in ends : x <= y
    IN  SubSeq(t, p, q - 1)

\* the lines of a text, in order
LinesOf(t) ==
    LET starts == LineStarts(t)
        Nth(n) == CHOOSE p \in starts : Cardinality({x \in starts : x <= p}) = n
    IN  [n \in 1..Cardinality(starts) |-> LineAt(t, Nth(n))]

\* lines, with one LF between each two
Joined(lines) ==
    Flatten([n \in 1..Len(lines) |->
                IF n = 1 THEN lines[n] ELSE <<Ord["LF"]>> \o lines[n]])

\* the names of the entries the rewrite leaves out
RemovedNames ==
    {orig_file.entries[k].filename :
        k \in {j \in 1..Len(orig_file.entries) : ~Survives(orig_file.entries[j])}}

\* the line holds the manifest item of a removed entry
DeclaresRemovedItem(line) == \E f \in RemovedNames : Contains(line, ItemLine(f))

\* the line holds the text <item and the base name of a removed entry
NamesRemovedEntry(line) ==
    /\ Contains(line, B(<<"<", "i", "t", "e", "m">>))
    /\ \E f \in RemovedNames :
        Contains(line, SubSeq(f, LastIndex(f, Ord["/"]) + 1, Len(f)))

IsOpfName(name) == EndsWith(name, B(<<".", "o", "p", "f">>))

\* C13, as stated: after process_epub every line of a package document that
\* declares the manifest item of a removed entry is gone, and every other line
\* is there, unchanged and in the original order.  (Stated here of the
\* documents named *.opf that are UTF-8 only.)
C13_AsStated ==
    (pe_pc = "returned" /\ pe_error = "none") =>
        LET before == SelectSeq(orig_file.entries, Survives) IN
        \A k \in 1..Len(epub_file.entries) :
            (/\ IsOpfName(epub_file.entries[k].filename)
             /\ Utf8Decodes(before[k].content.data)) =>
                LinesOf(epub_file.entries[k].content.data)
                    = SelectSeq(LinesOf(before[k].content.data),
                                LAMBDA line : ~DeclaresRemovedItem(line))

\* C13, amended: after process_epub an entry whose name ends in ".opf" and
\* whose bytes are UTF-8 holds its old lines, joined by single LFs with none
\* at the end, less every line that contains the text "<item" and the base
\* name of a removed entry; every other line is there unchanged and in order.
\* Any other entry (a name ending otherwise, as ".OPF" does, or bytes that
\* are not UTF-8) holds its old bytes.
C13_PrunedByTextMatch ==
    (pe_pc = "returned" /\ pe_error = "none") =>
        LET before == SelectSeq(orig_file.entries, Survives) IN
        /\ Len(before) = Len(epub_file.entries)
        /\ \A k \in 1..Len(epub_file.entries) :
            LET old == before[k].content.data
                new == epub_file.entries[k].content.data
                name == epub_file.entries[k].filename
            IN  IF /\ Len(name) >= 4
                   /\ SubSeq(name, Len(name) - 3, Len(name)) = B(<<".", "o", "p", "f">>)
                   /\ \A j \in 1..Len(old) : old[j] # Ord["FF"]
                THEN new = Joined(SelectSeq(LinesOf(old),
                                            LAMBDA line : ~NamesRemovedEntry(line)))
                ELSE new = old

\* a package document with CR LF line ends has lost the line of the font and
\* kept the three other lines
C13_Witness ==
    /\ pe_pc = "returned"
    /\ pe_error = "none"
    /\ \E k \in 1..Len(orig_file.entries) :
        /\ orig_file.entries[k].filename = B(<<"c", ".", "o", "p", "f">>)
        /\ orig_file.entries[k].content.data
            = Terminated(<<MetaLine, ItemLine(NameFont), ItemLine(NameText),
                           ItemrefLine(NameText)>>, <<Ord["CR"], Ord["LF"]>>, TRUE)
        /\ epub_file.entries[k].content.data
            = MetaLine \o <<Ord["LF"]>> \o ItemLine(NameText) \o <<Ord["LF"]>>
              \o ItemrefLine(NameText)

-----------------------------------------------------------------------------
(* What a book's processing leaves on disk, under SpecMetrics *)

\* a complete metrics file: the version byte, the total, the count, and as
\* many offsets as the count says, the last one being the total
WellFormedMetrics(f) ==
    /\ Len(f) >= 13
    /\ f[1] = 1
    /\ \E n \in 1..((Len(f) - 9) \div 4) :
        /\ Len(f) = 9 + 4 * n
        /\ U32At(f, 6) = W(n)
        /\ U32At(f, 6 + 4 * n) = U32At(f, 2)

\* C19 (the metrics file): once generate_metrics has returned, by success or
\* by a caught failure at any step, the metrics file either does not exist or
\* is complete and well formed.
C19_NoPartialMetrics ==
    gm_ret # "none" => (metrics_file = NoFile \/ WellFormedMetrics(metrics_file))

-----------------------------------------------------------------------------
(* The catalog *)

\* the pieces of s between the occurrences of sep
RECURSIVE SplitOn(_, _)
SplitOn(s, sep) ==
    LET at == {k \in 1..Len(s) : s[k] = sep} IN
    IF at = {} THEN <<s>>
    ELSE LET k == CHOOSE x \in at : \A y \in at : x <= y
         IN  <<SubSeq(s, 1, k - 1)>> \o SplitOn(SubSeq(s, k + 1, Len(s)), sep)

\* the lines of index.txt, each ended by a line feed
IndexLines ==
    LET pieces == SplitOn(index_file, Ord["LF"]) IN SubSeq(pieces, 1, Len(pieces) - 1)

\* the run wrote index.txt
IndexWritten == main_pc = "returned" /\ index_opens > 0

\* what a title or an author looks like in the catalog
Safe(text) == [k \in 1..Len(text) |->
                 IF text[k] = Ord["|"] THEN Ord["-"]
                 ELSE IF text[k] \in {Ord["LF"], Ord["CR"]} THEN Ord["SP"]
                 ELSE text[k]]

\* C14: the line of every book in index.txt splits on '|' into exactly the 11
\* fields sequence id, title, 0, 0, device path, byte size, metrics flag, author,
\* 0, empty, 1.0, with '|' in a title or author turned into '-' and a line feed
\* or carriage return into a space, whatever the title, author and file name
C14_DelimiterNotInjected ==
    IndexWritten =>
        /\ Len(IndexLines) = Len(results)
        /\ \A k \in 1..Len(results) :
              LET fields == SplitOn(IndexLines[k], Ord["|"])
                  r == results[k]
              IN  /\ Len(fields) = 11
                  /\ fields[1] = Str(k)
                  /\ fields[2] = Safe(r.title)
                  /\ fields[3] = Str(0)
                  /\ fields[4] = Str(0)
                  /\ fields[5] = SDCARD_BOOKS_ROOT \o B(<<"/">>) \o r.name
                  /\ fields[6] = Str(r.size)
                  /\ fields[7] = Str(r.has_metrics)
                  /\ fields[8] = (IF r.author = NoText THEN <<>> ELSE Safe(r.author))
                  /\ fields[9] = Str(0)
                  /\ fields[10] = <<>>
                  /\ fields[11] = B(<<"1", ".", "0">>)

\* the same for the books whose file name has no '|': the title and author
\* fields are sanitized and the line has 11 fields
C14_SafeWhenNameHasNoBar ==
    IndexWritten =>
        \A k \in 1..Len(results) :
            LET fields == SplitOn(IndexLines[k], Ord["|"]) IN
            ~Contains(results[k].name, Bar) =>
                /\ Len(fields) = 11
                /\ fields[2] = Safe(results[k].title)
                /\ fields[8] = (IF results[k].author = NoText THEN <<>>
                                ELSE Safe(results[k].author))

-----------------------------------------------------------------------------
(* Renaming *)

\* the name rename_epub_by_metadata wants for the book at path is taken by
\* another file
Collides(path) ==
    LET f == FileAt(path) IN
    /\ Lower(suffix(path)) = DotEpub
    /\ MetadataFound(f)
    /\ new_stem(f, path) # <<>>
    /\ TargetOf(f, path) # path
    /\ PathExists(TargetOf(f, path))

\* the steps of a book after rename_epub_by_metadata has returned
AfterRename(k) == tasks[k].pc \in {"metrics", "metadata", "returned"}

\* C15: when rename_epub_by_metadata finds a file other than the book under
\* the target name, it renames nothing and leaves the directory as it is, the
\* book keeps its path, and the metrics file and the catalog entry are made for
\* that path
C15_NeverOverwrites ==
    [][\A k \in DOMAIN tasks :
          /\ (tasks[k].pc = "rename_check" /\ tasks'[k].pc # "rename_check"
                  /\ Collides(tasks[k].path))
                => /\ dir' = dir
                   /\ tasks'[k].pc = "metrics"
                   /\ tasks'[k].final = tasks[k].path
          /\ AfterRename(k) => tasks'[k].final = tasks[k].final
          /\ (tasks[k].pc = "metrics" /\ tasks'[k].pc # "metrics")
                => \A m \in metrics_files' \ metrics_files :
                      m.stem = stem(tasks[k].final)
          /\ (tasks[k].pc = "returned" /\ tasks'[k].pc = "collected")
                => /\ Len(results') = Len(results) + 1
                   /\ results'[Len(results')].name = tasks[k].final
      ]_vars

\* a run is over in which a book was left under its own name because the name
\* made of its title and author was taken, and both files are still there
C15_Witness ==
    /\ IndexWritten
    /\ \E k \in DOMAIN tasks :
          /\ tasks[k].pc = "collected"
          /\ tasks[k].target = <<>>
          /\ tasks[k].final = tasks[k].path
          /\ is_file(tasks[k].path)
          /\ Collides(tasks[k].path)
          /\ \E n \in 1..Len(results) : results[n].name = tasks[k].path
    /\ NamesIn(dir) = NamesIn(dir0)

-----------------------------------------------------------------------------
(* Workers *)

\* the file of the starting directory is still in the directory, whatever its
\* name is now
StillThere(f) == \E g \in dir : g.id = f.id

\* C16: with two or more workers and whatever the order of their steps, no
\* step of one book overwrites or removes the file of another book: every file
\* the run started from is still there, under its original or its new name
C16_EverySourceBookSurvives ==
    max_workers > 1 => \A f \in dir0 : StillThere(f)

\* with one worker every file the run started from is still there
C16_SequentialRunKeepsEveryBook ==
    max_workers <= 1 => \A f \in dir0 : StillThere(f)

-----------------------------------------------------------------------------
(* Failures *)

\* the book at the k-th discovered path met a failure that is fatal for the
\* book: its archive cannot be opened or holds no metadata, and it is still so
\* when the run is over
FailedBook(k) ==
    /\ is_file(epub_paths[k])
    /\ FileAt(epub_paths[k]).kind = "garbage"

\* C17: a failure that is fatal for one book ends the processing of that book
\* only: the catalog has no line for the failed book, and every other book is
\* processed and has its line
C17_FailedBookOnlyIsLeftOut ==
    main_pc \in {"returned", "raised"} /\ epub_paths # <<>> =>
        /\ IndexWritten
        /\ \A k \in DOMAIN tasks :
              /\ tasks[k].pc = "collected"
              /\ FailedBook(k) => \A n \in 1..Len(results) : results[n].name # epub_paths[k]

\* a run ended in the ordinary way and its catalog has a line for a file that
\* is no archive
C17_FailedBookHasLine ==
    /\ IndexWritten
    /\ \E k \in DOMAIN tasks :
          /\ FailedBook(k)
          /\ \E n \in 1..Len(results) :
                /\ results[n].name = epub_paths[k]
                /\ results[n].title = stem(epub_paths[k])
                /\ results[n].has_metrics = 0

-----------------------------------------------------------------------------
(* Writing the catalog *)

\* no call of process_single_epub is under way or still to come
AllReturned ==
    \A k \in DOMAIN tasks : tasks[k].pc \in {"returned", "returned_none", "collected"}

\* C18 as stated, for the runs in which main returns: index.txt was opened and
\* written exactly once
C18_AsStated ==
    main_pc = "returned" => index_opens = 1

\* C18: index.txt is opened and written at most once, and only after the
\* processing of every discovered book has returned: exactly once when main
\* returns having discovered at least one book, never when it discovered none;
\* no line is written while a book is still being processed
C18_WrittenOnceAtTheEnd ==
    /\ index_opens <= 1
    /\ index_opens = 1 => AllReturned /\ epub_paths # <<>> /\ main_pc = "returned"
    /\ index_opens = 0 => index_file = <<>> /\ index_entries = <<>>
    /\ main_pc = "returned" /\ epub_paths # <<>> => index_opens = 1
    /\ main_pc = "returned" /\ epub_paths = <<>> => index_opens = 0

\* a run over two books with two workers has written the two lines
C18_Witness ==
    /\ index_opens = 1
    /\ max_workers = 2
    /\ Len(epub_paths) = 2
    /\ Len(IndexLines) = 2
    /\ AllReturned

\* the tasks whose call returned a result: those whose path is a file
Returning == SelectSeq(tasks, LAMBDA t : is_file(t.final))

\* C20: the k-th line of index.txt carries the id k, the ids follow the order
\* in which the results were collected, which is the order of the discovered
\* paths, and there are as many lines as books that returned a result
C20_ConsecutiveIds ==
    IndexWritten =>
        /\ Len(IndexLines) = Len(results)
        /\ Len(results) = Len(Returning)
        /\ \A k \in 1..Len(IndexLines) :
              /\ Head(SplitOn(IndexLines[k], Ord["|"])) = Str(k)
              /\ IndexLines[k] = IndexEntry(k, results[k])
              /\ results[k] = ResultOf(Returning[k])

\* a run wrote a catalog of two different lines, the second with the id 2
C20_Witness ==
    /\ IndexWritten
    /\ Len(IndexLines) = 2
    /\ Head(SplitOn(IndexLines[2], Ord["|"])) = Str(2)
    /\ IndexLines[1] # IndexLines[2]

-----------------------------------------------------------------------------
(* Unterminated tags, under SpecCount *)

\* data is x, then '<' at position p, then t, where x does not end inside a
\* tag and t holds neither '<' nor '>'
EndsUnterminatedAt(p) ==
    /\ data[p] = 60
    /\ \A k \in (p + 1)..Len(data) : data[k] \notin {60, 62}
    /\ ~Scan(Prefix(p - 1)).in_tag

\* C22: an unterminated tag at the end of the input adds nothing: for x that
\* does not end inside a tag and t without '<' and '>', the count of
\* x + "<" + t is the count of x
C22_UnterminatedTagAddsNothing ==
    count_pc = "done" =>
        \A p \in 1..Len(data) :
            EndsUnterminatedAt(p) => length = count_chapter_length(Prefix(p - 1))

\* a scan is over whose input ends in an unterminated tag with text in it,
\* after a part that counted something
C22_Witness ==
    /\ count_pc = "done"
    /\ \E p \in 2..(Len(data) - 1) :
          /\ EndsUnterminatedAt(p)
          /\ count_chapter_length(Prefix(p - 1)) > 0
          /\ length > 0

-----------------------------------------------------------------------------
(* Runs that end early, under SpecBatch *)

\* main is over
RunOver == main_pc \in {"returned", "raised"}

\* no name of the directory main was called on ends in .epub
NoBookIn(d) == \A f \in d : ~IsEpubName(f.name)

\* no book was touched, and there is no index.txt
NothingDone ==
    /\ tasks = <<>>
    /\ results = <<>>
    /\ dir = dir0
    /\ metrics_files = {}
    /\ index_opens = 0
    /\ index_file = <<>>

\* C21: when the target directory does not exist or holds no .epub file, main
\* returns without raising, has processed no book and has neither created
\* nor changed index.txt
C21_BatchFatalReturns ==
    RunOver /\ (~dir_exists \/ NoBookIn(dir0)) => main_pc = "returned" /\ NothingDone

\* the part that holds: on a directory that exists and holds no .epub file
\* main returns and has done nothing; on a missing directory it has done nothing
C21_NoBooksReturns ==
    /\ RunOver /\ dir_exists /\ NoBookIn(dir0) => main_pc = "returned" /\ NothingDone
    /\ RunOver /\ ~dir_exists => NothingDone

-----------------------------------------------------------------------------
(* The catalog and the number of workers, under SpecBatch *)

\* the name a file gets when nothing stands in the way of its renaming
ResolvedName(f) ==
    IF /\ f.kind = "book"
       /\ Lower(suffix(f.name)) = DotEpub
       /\ new_stem(f, f.name) # <<>>
       THEN TargetOf(f, f.name)
       ELSE f.name

\* the files main hands to process_single_epub that are files
BooksOf(d) == {f \in d : IsEpubName(f.name) /\ f.kind # "dir"}

\* no two books of the directory resolve to the same target name
DistinctTargets(d) ==
    \A f, g \in BooksOf(d) : f # g => ResolvedName(f) # ResolvedName(g)

\* what one call of process_single_epub in which no step fails makes of the
\* directory, the metrics files and the results, when no other call is under way
CallAlone(st, path) ==
    LET f == CHOOSE x \in st.dir : x.name = path
        g == IF f.kind = "book" THEN [f EXCEPT !.rewritten = TRUE, !.size = f.size - 1]
             ELSE f
        final == IF ResolvedName(g) \in {x.name : x \in st.dir} THEN path
                 ELSE ResolvedName(g)
        has == IF g.kind = "book" \/ stem(final) \in st.stems THEN 1 ELSE 0
    IN  IF f.kind = "dir" THEN st
        ELSE [dir |-> (st.dir \ {f}) \cup {[g EXCEPT !.name = final]},
              stems |-> IF g.kind = "book" THEN st.stems \cup {stem(final)} ELSE st.stems,
              results |-> Append(st.results,
                            [name |-> final,
                             title |-> IF g.kind = "book" THEN ElementText(g.title)
                                       ELSE stem(final),
                             author |-> IF g.kind = "book" THEN ElementText(g.author)
                                        ELSE NoText,
                             size |-> g.size,
                             has_metrics |-> has])]

RECURSIVE CallsInTurn(_, _)
CallsInTurn(st, paths) ==
    IF paths = <<>> THEN st
    ELSE CallsInTurn(CallAlone(st, Head(paths)), Tail(paths))

\* the index.txt that a run with one worker in which no step fails writes for
\* the directory d
SequentialCatalog(d) ==
    LET paths == Sorted({n \in NamesIn(d) : IsEpubName(n)})
        rs == CallsInTurn([dir |-> d, stems |-> {}, results |-> <<>>], paths).results
    IN  Flatten([k \in 1..Len(rs) |-> BuildEntries(rs, 1)[k] \o B(<<"LF">>)])

\* the run is over, it wrote index.txt, and no step of it failed: every book
\* was rewritten and has its metrics, and every rename that was tried was done
RanWithoutFailure ==
    /\ IndexWritten
    /\ \A m \in metrics_files : m.complete
    /\ \A k \in DOMAIN tasks :
          /\ tasks[k].target # <<>> => tasks[k].final = tasks[k].target
          /\ is_file(tasks[k].final) =>
                LET g == FileAt(tasks[k].final) IN
                /\ \E f \in dir0 : f.id = g.id /\ f.kind = g.kind
                /\ g.kind = "book" => g.rewritten /\ tasks[k].has_metrics = 1

\* C23: whatever the number of workers and the order in which they finish,
\* the lines of index.txt follow the sorted order of the discovered names, so
\* that a run on a directory in which no two books resolve to the same target
\* name writes the catalog that a run with one worker writes
C23_SameCatalogForEveryWorkerCount ==
    RanWithoutFailure /\ DistinctTargets(dir0) => index_file = SequentialCatalog(dir0)

\* with one worker the catalog is the one SequentialCatalog gives
C23_OneWorkerCatalog ==
    RanWithoutFailure /\ max_workers = 1 => index_file = SequentialCatalog(dir0)

\* no book resolves to a name that another file of the directory has or
\* resolves to
IndependentNames(d) ==
    \A f \in BooksOf(d) : \A g \in d :
        f # g => ResolvedName(f) \notin {g.name, ResolvedName(g)}

\* the part that holds: the lines follow the order of the discovered names for
\* every number of workers, and the catalogs are equal when no book's target
\* name is the name or the target name of another file
C23_OrderAndIndependentBooks ==
    /\ IndexWritten =>
          \A k \in 1..Len(results) : results[k].name = Returning[k].final
    /\ RanWithoutFailure /\ IndependentNames(dir0) => index_file = SequentialCatalog(dir0)

====
